---- MODULE Spec2Model ----
(***************************************************************************)
(* Risk-assessment pipeline of the outdoor-risk API: the reanalysis client *)
(* (app/weather/power.py), the sample collector (app/engine/samples.py),   *)
(* the configuration (app/config.py) and the /risk and /export handlers    *)
(* (app/main.py).                                                          *)
(*                                                                         *)
(* One run of the model is one call of one entry point, chosen in Init:    *)
(*   "daily"   PowerClient.get_daily_data called directly                  *)
(*   "collect" collect_samples called directly, with any settings object   *)
(*   "risk"    POST /risk   (assess_risk, module-level Settings())         *)
(*   "export"  POST /export (export_data, module-level Settings())         *)
(* Every await of the code is a step boundary: an action runs the code     *)
(* from one await to the next.                                             *)
(***************************************************************************)
EXTENDS Integers, Sequences, FiniteSets, TLC

VARIABLES
    pc,               \* position of the running call
    req,              \* the call's arguments
    settings,         \* the settings object the call reads
    call,             \* arguments of the get_daily_data call in progress
    attempts,         \* HTTP GETs issued by the _make_request call in progress
    requests_sent,    \* HTTP GETs issued since the entry point was called
    last_resp,        \* the upstream's answer to the latest HTTP GET
    daily_result,     \* how the latest get_daily_data call ended
    year,             \* loop variable of collect_samples
    year_samples,     \* collect_samples: year_samples of the latest year
    all_samples,      \* collect_samples: all_samples
    years_with_data,  \* collect_samples: years_with_data
    fetch_log,        \* per baseline year already handled: how its fetch ended
    outcome,          \* how collect_samples ended
    precip,           \* PrecipitationClient: its flags and the call's progress
    calc,             \* arguments and results of a direct call of a function
    tasks,            \* the collect_samples calls that run concurrently
    http              \* the HTTP answer of the /risk or /export handler

vars == <<pc, req, settings, call, attempts, requests_sent, last_resp,
          daily_result, year, year_samples, all_samples, years_with_data,
          fetch_log, outcome, precip, calc, tasks, http>>

(***************************************************************************)
(* Bounds of the model.                                                    *)
(***************************************************************************)
\* Number of baseline years a collect_samples call may span.
MaxYears == 2
\* Number of days of one year's window the upstream answers for.
MaxDays == 2

(***************************************************************************)
(* Values.  An optional value (Python None or a value) is a sequence of    *)
(* length 0 or 1.                                                          *)
(***************************************************************************)
None == <<>>
Some(v) == <<v>>
IsNone(o) == o = <<>>

\* The upstream's fill value for a missing observation.
SENTINEL == -999

\* Exception classes, by name.  "none" is a normal return.
NoExc == "none"

(***************************************************************************)
(* Calendar: a date is the number of days since 1 January of EpochYear.    *)
(***************************************************************************)
EpochYear == 2023

is_leap_year(y) == y % 4 = 0 /\ (y % 100 # 0 \/ y % 400 = 0)

YearLen(y) == IF is_leap_year(y) THEN 366 ELSE 365

RECURSIVE YearStart(_)
YearStart(y) == IF y <= EpochYear THEN 0 ELSE YearStart(y - 1) + YearLen(y - 1)

\* date(year, 1, 1) + timedelta(days = doy - 1)
DateOfDoy(y, doy) == YearStart(y) + doy - 1

RECURSIVE YearOfDate(_, _)
YearOfDate(d, y) == IF d < YearStart(y) + YearLen(y) THEN y ELSE YearOfDate(d, y + 1)

\* The calendar year and the day of year of a date.
DateYear(d) == YearOfDate(d, EpochYear)
DateDoy(d) == d - YearStart(DateYear(d)) + 1

Max(a, b) == IF a >= b THEN a ELSE b
Min(a, b) == IF a <= b THEN a ELSE b

(***************************************************************************)
(* The upstream.  An HTTP GET ends in a transport error or in a response   *)
(* with a status code and a body.                                          *)
(***************************************************************************)
Params == {"T2M", "RH2M", "WS10M", "PRECTOTCORR"}

StatusCodes == {200, 404, 429, 500, 502, 503, 504}

\* A real observation of each parameter (one representative value).
RealValue(p) ==
    CASE p = "T2M" -> 25
      [] p = "RH2M" -> 50
      [] p = "WS10M" -> 3
      [] p = "PRECTOTCORR" -> 2

\* A day with an observation of every parameter.
CompleteDay == [p \in Params |-> Some(RealValue(p))]

\* One day of a response: what it holds for each parameter.  A day deviates
\* from a complete observation in at most one parameter.
DayVariants ==
    {CompleteDay}
    \cup {[CompleteDay EXCEPT ![p] = e] : p \in Params, e \in {None, Some(SENTINEL)}}

\* The series of parameter p: a dict from the date keys that have an entry.
SeriesOf(days, p) ==
    [d \in {k \in DOMAIN days : ~IsNone(days[k][p])} |-> days[d][p][1]]

\* The parameter map of a response that answers for the dates of `days`.
ParameterMap(days) == [p \in Params |-> SeriesOf(days, p)]

EmptyMap == [p \in Params |-> [d \in {} |-> 0]]

\* Shapes of a 200 body.
BodyShapes == {"not_json", "error", "no_properties", "no_parameter", "ok"}

\* whole_numbers: the body writes its numbers without a fraction (25, not
\* 25.0), so that json() yields Python ints instead of floats.
\* descending: the body lists the date keys of a series latest first; json()
\* keeps the order of the body in the dicts it builds.
NoAnswer == [transport_error |-> FALSE, status_code |-> 0, shape |-> "ok",
             parameter |-> EmptyMap, whole_numbers |-> FALSE,
             descending |-> FALSE]

\* The days of a response: complete observations, but for at most one day.
DaySets(dates) ==
    LET complete == [d \in dates |-> CompleteDay]
    IN {complete}
       \cup {[complete EXCEPT ![d] = v] : d \in dates, v \in DayVariants}

\* The same days one year later: date keys outside the requested range.
SameDaysNextYear(dates) == {d + YearLen(DateYear(d)) : d \in dates}

\* The answers the upstream can give to a request for the dates `dates`,
\* with the number formats `formats`: failures, bodies without data, data
\* for the requested dates, the same listed latest first, and data under
\* the date keys of another year.
Answers(dates, formats) ==
    {[NoAnswer EXCEPT !.transport_error = TRUE]}
    \cup {[NoAnswer EXCEPT !.status_code = s] : s \in StatusCodes \ {200}}
    \cup {[NoAnswer EXCEPT !.status_code = 200, !.shape = b] :
             b \in BodyShapes \ {"ok"}}
    \cup {[NoAnswer EXCEPT !.status_code = 200,
                           !.parameter = ParameterMap(days),
                           !.whole_numbers = w] :
             days \in DaySets(dates),
             w \in formats}
    \cup {[NoAnswer EXCEPT !.status_code = 200,
                           !.parameter = ParameterMap([d \in dates |-> CompleteDay]),
                           !.descending = TRUE]}
    \cup {[NoAnswer EXCEPT !.status_code = 200,
                           !.parameter =
                              ParameterMap([d \in SameDaysNextYear(dates) |-> CompleteDay])]}

(***************************************************************************)
(* PowerClient._make_request: the body of one attempt, then the decision   *)
(* of the tenacity decorator.                                              *)
(***************************************************************************)
\* httpx.Response.raise_for_status raises unless the status is 2xx.
RaiseForStatus(status) == ~(200 <= status /\ status < 300)

\* The exception raised inside the try block of one attempt.
TryBlock(resp) ==
    IF resp.transport_error THEN "httpx.RequestError"
    ELSE IF resp.status_code = 429 THEN "PowerAPIRateLimitError"
    ELSE IF RaiseForStatus(resp.status_code) THEN "httpx.HTTPStatusError"
    ELSE IF resp.shape = "not_json" THEN "ValueError"
    ELSE NoExc

\* The except clauses of the attempt: what leaves the function body.
ExceptClauses(exc) ==
    IF exc \in {"httpx.HTTPStatusError", "httpx.RequestError"}
    THEN "PowerAPIError"
    ELSE exc

AttemptRaises(resp) == ExceptClauses(TryBlock(resp))

\* stop = stop_after_attempt(3)
StopAfterAttempt == 3

\* retry = retry_if_exception_type((httpx.RequestError, httpx.HTTPStatusError)),
\* applied to the exception that left the function body.
RetryIfExceptionType(exc) ==
    exc \in {"httpx.RequestError", "httpx.HTTPStatusError"}

\* The decorator after attempt number n ended in exc: "retry", or how the
\* call ends (tenacity raises RetryError when the stop condition is met).
RetryDecision(exc, n) ==
    IF exc = NoExc THEN NoExc
    ELSE IF ~RetryIfExceptionType(exc) THEN exc
    ELSE IF n >= StopAfterAttempt THEN "tenacity.RetryError"
    ELSE "retry"

(***************************************************************************)
(* PowerClient._validate_response_data and get_daily_data.                 *)
(***************************************************************************)
validate_response_data(resp) ==
    IF resp.shape \in {"error", "no_properties", "no_parameter"}
    THEN "PowerAPIDataError"
    ELSE NoExc

\* The argument checks of get_daily_data.
DailyArgsRejected(c) ==
    \/ ~(-90 <= c.latitude /\ c.latitude <= 90)
    \/ ~(-180 <= c.longitude /\ c.longitude <= 180)
    \/ c.start_date > c.end_date

\* The data get_daily_data returns for an accepted answer: the response as
\* received.
ReturnedData(resp) == resp.parameter

\* Subclasses of PowerAPIError (the class itself included).
IsPowerAPIError(exc) ==
    exc \in {"PowerAPIError", "PowerAPIRateLimitError", "PowerAPIDataError"}

(***************************************************************************)
(* _collect_samples_for_year: the requested date range and the samples     *)
(* built from one year's response.                                         *)
(***************************************************************************)
\* dict.get(key): the entry, or None.
Get(series, key) == IF key \in DOMAIN series THEN Some(series[key]) ELSE None

start_doy(target_doy, window_days) == Max(1, target_doy - window_days)

end_doy(y, target_doy, window_days) ==
    Min(IF is_leap_year(y) THEN 366 ELSE 365, target_doy + window_days)

\* The get_daily_data call _collect_samples_for_year makes for year y.
YearCall(r, y) ==
    [latitude |-> r.latitude, longitude |-> r.longitude,
     start_date |-> DateOfDoy(y, start_doy(r.target_doy, r.window_days)),
     end_date |-> DateOfDoy(y, end_doy(y, r.target_doy, r.window_days))]

\* The date keys of a series in the order the loop visits them, which is
\* the order of the response body.
RECURSIVE KeysInOrder(_, _)
KeysInOrder(S, descending) ==
    IF S = {} THEN <<>>
    ELSE LET m == IF descending
                  THEN CHOOSE x \in S : \A z \in S : x >= z
                  ELSE CHOOSE x \in S : \A z \in S : x <= z
         IN <<m>> \o KeysInOrder(S \ {m}, descending)

\* tz_for_point: the zone of the call's coordinates, here by longitude.
tz_for_point(lat, lon) ==
    IF lon <= -30 THEN "America/Fortaleza"
    ELSE IF lon >= 130 THEN "Asia/Tokyo"
    ELSE "UTC"

\* The UTC offset of a zone, in hours (none of the zones has daylight saving
\* time).
UtcOffset(zone) ==
    CASE zone = "America/Fortaleza" -> -3
      [] zone = "Asia/Tokyo" -> 9
      [] OTHER -> 0

\* An aware datetime: its instant in hours since the epoch day's midnight
\* UTC, and the offset of the zone it is expressed in.
\* datetime.combine(sample_date, hour).replace(tzinfo=UTC):
UtcDatetime(day, hour) == [instant |-> day * 24 + hour, utcoffset |-> 0]

\* to_local: the same instant expressed in the zone.
to_local(dt_utc, iana_zone) ==
    [instant |-> dt_utc.instant, utcoffset |-> UtcOffset(iana_zone)]

\* The civil date and hour an aware datetime shows.
CivilDate(dt) == (dt.instant + dt.utcoffset) \div 24
CivilHour(dt) == (dt.instant + dt.utcoffset) % 24

\* A collector that asks for all four parameters before it builds a sample.
SkipDayLackingAny(parameter, key) ==
    \E p \in Params : IsNone(Get(parameter[p], key))

\* "Skip if any critical data is missing".
SkipDay(parameter, key) ==
    \E p \in {"T2M", "RH2M", "WS10M"} : IsNone(Get(parameter[p], key))

\* "Use 0.0 for missing precipitation".
PrecipitationOf(parameter, key) ==
    IF IsNone(Get(parameter["PRECTOTCORR"], key)) THEN 0
    ELSE parameter["PRECTOTCORR"][key]

\* The WeatherSample built for a date key that is not skipped.
SampleOf(parameter, key, whole, target_hour, timezone_iana) ==
    [timestamp_utc |-> UtcDatetime(key, 12),
     timestamp_local |-> to_local(UtcDatetime(key, target_hour), timezone_iana),
     year |-> DateYear(key), doy |-> DateDoy(key), date |-> key,
     temperature_c |-> parameter["T2M"][key],
     relative_humidity |-> parameter["RH2M"][key],
     wind_speed_ms |-> parameter["WS10M"][key],
     precipitation_mm_per_day |-> PrecipitationOf(parameter, key),
     whole_numbers |-> whole]

RECURSIVE SamplesOfKeys(_, _, _, _, _)
SamplesOfKeys(keys, parameter, whole, target_hour, timezone_iana) ==
    IF keys = <<>> THEN <<>>
    ELSE (IF SkipDay(parameter, Head(keys)) THEN <<>>
          ELSE <<SampleOf(parameter, Head(keys), whole, target_hour,
                          timezone_iana)>>)
         \o SamplesOfKeys(Tail(keys), parameter, whole, target_hour,
                          timezone_iana)

\* The list _collect_samples_for_year returns for the data of one response.
collect_samples_for_year(data, resp, target_hour, timezone_iana) ==
    SamplesOfKeys(KeysInOrder(DOMAIN data["T2M"], resp.descending), data,
                  resp.whole_numbers, target_hour, timezone_iana)

(***************************************************************************)
(* collect_samples: argument checks, the handling of one year's fetch and  *)
(* the coverage check.                                                     *)
(***************************************************************************)
\* Settings has no field coverage_enforce; a settings object that carries
\* one carries TRUE or FALSE.
Absent == "absent"

\* The ValueError checks at the head of collect_samples (parse_date included).
CollectArgsRejected(r) ==
    \/ ~(-90 <= r.latitude /\ r.latitude <= 90)
    \/ ~(-180 <= r.longitude /\ r.longitude <= 180)
    \/ ~(0 <= r.target_hour /\ r.target_hour <= 23)
    \/ r.window_days < 0
    \/ r.baseline_start_year > r.baseline_end_year
    \/ r.date_form # "iso"

\* What the except clauses of the year loop do with an exception of the
\* year's fetch: "skip" the year, or abort with SampleCollectorError.
YearExceptClause(exc) ==
    IF IsPowerAPIError(exc) THEN "skip" ELSE "SampleCollectorError"

\* coverage_adequate
CoverageAdequate(s, n_years, n_samples) ==
    n_years >= s.coverage_min_years /\ n_samples >= s.coverage_min_samples

\* How collect_samples ends after the loop: the exception raised, or "none"
\* when the SampleCollection is returned.
CoverageCheck(s, n_years, n_samples) ==
    IF CoverageAdequate(s, n_years, n_samples) THEN NoExc
    ELSE IF s.coverage_enforce = Absent THEN "AttributeError"
    ELSE IF s.coverage_enforce = "true" THEN "InsufficientCoverageError"
    ELSE NoExc

NoCollection == [returned |-> FALSE, samples |-> <<>>, years_with_data |-> 0,
                 total_samples |-> 0, coverage_adequate |-> FALSE]

(***************************************************************************)
(* The /risk and /export handlers.                                         *)
(***************************************************************************)
\* The field constraints of RiskRequest and ExportRequest; FastAPI answers
\* 422 when they fail.  date.fromisoformat accepts the basic form YYYYMMDD.
RequestRejected(r) ==
    \/ ~(-90 <= r.latitude /\ r.latitude <= 90)
    \/ ~(-180 <= r.longitude /\ r.longitude <= 180)
    \/ ~(0 <= r.target_hour /\ r.target_hour <= 23)
    \/ ~(1 <= r.window_days /\ r.window_days <= 30)
    \/ r.date_form = "bad"
    \/ (r.kind = "risk" /\ r.detail \notin {"lean", "full"})
    \/ (r.kind = "export" /\ r.format \notin {"csv", "json"})

\* heat_index raises ValueError unless 0 <= relative_humidity <= 100, and
\* wind_chill raises ValueError for a negative wind speed.
IndexRaises(s) ==
    \/ ~(0 <= s.relative_humidity /\ s.relative_humidity <= 100)
    \/ s.wind_speed_ms < 0

\* calculate_distributions hands heat_index the elements of a numpy array:
\* they are numpy integers, which heat_index rejects with TypeError, when
\* every sample's value is a Python int.
DistributionsRaise(samples) ==
    /\ samples # <<>>
    /\ \A i \in 1..Len(samples) : samples[i].whole_numbers

Answer(status, body) == [status |-> status, body |-> body]

\* The except clauses around collect_samples, the same in both handlers.
CollectErrorStatus(exc) ==
    IF exc = "InsufficientCoverageError" THEN 422
    ELSE IF exc = "ValueError" THEN 400
    ELSE 500

\* A handler without the fallback: a failure of the distributions and trends
\* computation fails the request.
assess_risk_without_fallback(out, r) ==
    IF out.exc # NoExc THEN Answer(CollectErrorStatus(out.exc), "error")
    ELSE LET samples == out.collection.samples IN
         IF \E i \in 1..Len(samples) : IndexRaises(samples[i])
         THEN Answer(500, "error")
         ELSE IF samples = <<>> THEN Answer(500, "error")
         ELSE IF r.detail = "full" /\ DistributionsRaise(samples)
         THEN Answer(500, "error")
         ELSE IF r.detail = "full" THEN Answer(200, "full")
         ELSE Answer(200, "lean")

\* assess_risk after collect_samples ended as `out`.
assess_risk(out, r) ==
    IF out.exc # NoExc THEN Answer(CollectErrorStatus(out.exc), "error")
    ELSE LET samples == out.collection.samples IN
         IF \E i \in 1..Len(samples) : IndexRaises(samples[i])
         THEN Answer(500, "error")
         ELSE IF samples = <<>> THEN Answer(500, "error")
         ELSE IF r.detail = "full" /\ ~DistributionsRaise(samples)
         THEN Answer(200, "full")
         ELSE Answer(200, "lean")

\* export_data after collect_samples ended as `out`.
export_data(out, r) ==
    IF out.exc # NoExc THEN Answer(CollectErrorStatus(out.exc), "error")
    ELSE LET samples == out.collection.samples IN
         IF \E i \in 1..Len(samples) : IndexRaises(samples[i])
         THEN Answer(500, "error")
         ELSE Answer(200, "file")

(***************************************************************************)
(* The indices and the threshold engine.  Temperatures are in tenths of a  *)
(* degree Celsius, humidity in percent, wind speed in hundredths of m/s,   *)
(* daily precipitation in mm, hourly precipitation in tenths of mm/h.      *)
(***************************************************************************)
\* How a function call ends: with a value, or raising.
Returns(v) == [exc |-> NoExc, value |-> v]
Raises(exc) == [exc |-> exc, value |-> None]

\* The Rothfusz regression, evaluated at the temperatures and humidities of
\* the model's samples.
HeatIndexFormula(temperature_c, relative_humidity) ==
    CASE temperature_c = 350 /\ relative_humidity = 50 -> 407
      [] temperature_c = 450 /\ relative_humidity = 50 -> 733

\* The NWS wind chill formula, evaluated likewise.
WindChillFormula(temperature_c, wind_speed_ms) ==
    CASE temperature_c = -150 /\ wind_speed_ms = 300 -> -215
      [] temperature_c = -150 /\ wind_speed_ms = 1200 -> -278
      [] temperature_c = 50 /\ wind_speed_ms = 300 -> 25
      [] temperature_c = 50 /\ wind_speed_ms = 1200 -> -9

\* A heat index that answers None instead of rejecting a humidity.
heat_index_without_validation(temperature_c, relative_humidity) ==
    IF temperature_c < 267 \/ relative_humidity < 40
       \/ relative_humidity > 100
    THEN Returns(None)
    ELSE Returns(Some(HeatIndexFormula(temperature_c, relative_humidity)))

heat_index(temperature_c, relative_humidity) ==
    IF ~(0 <= relative_humidity /\ relative_humidity <= 100)
    THEN Raises("ValueError")
    ELSE IF temperature_c < 267 THEN Returns(None)
    ELSE IF relative_humidity < 40 THEN Returns(None)
    ELSE Returns(Some(HeatIndexFormula(temperature_c, relative_humidity)))

wind_chill(temperature_c, wind_speed_ms) ==
    IF wind_speed_ms < 0 THEN Raises("ValueError")
    ELSE IF temperature_c > 100 THEN Returns(None)
    ELSE IF wind_speed_ms < 134 THEN Returns(None)
    ELSE Returns(Some(WindChillFormula(temperature_c, wind_speed_ms)))

feels_like_temperature(temperature_c, relative_humidity, wind_speed_ms) ==
    LET hi == heat_index(temperature_c, relative_humidity)
        wc == wind_chill(temperature_c, wind_speed_ms)
    IN IF temperature_c >= 267 /\ hi.exc # NoExc THEN Raises(hi.exc)
       ELSE IF temperature_c >= 267 /\ ~IsNone(hi.value) THEN Returns(hi.value)
       ELSE IF temperature_c <= 100 /\ wc.exc # NoExc THEN Raises(wc.exc)
       ELSE IF temperature_c <= 100 /\ ~IsNone(wc.value) THEN Returns(wc.value)
       ELSE Returns(Some(temperature_c))

\* WeatherSample(...) of the threshold engine: __post_init__ computes the
\* three indices, and what one of them raises leaves the constructor.
ThresholdSample(s) ==
    LET hi == heat_index(s.temperature_c, s.relative_humidity)
        wc == wind_chill(s.temperature_c, s.wind_speed_ms)
        fl == feels_like_temperature(s.temperature_c, s.relative_humidity,
                                     s.wind_speed_ms)
    IN IF hi.exc # NoExc THEN Raises(hi.exc)
       ELSE IF wc.exc # NoExc THEN Raises(wc.exc)
       ELSE IF fl.exc # NoExc THEN Raises(fl.exc)
       ELSE Returns(Some(
              [temperature_c |-> s.temperature_c,
               relative_humidity |-> s.relative_humidity,
               wind_speed_ms |-> s.wind_speed_ms,
               precipitation_mm_per_day |-> s.precipitation_mm_per_day,
               year |-> s.year,
               heat_index_c |-> hi.value, wind_chill_c |-> wc.value,
               feels_like_c |-> fl.value[1]]))

\* The thresholds of Settings(), in the units above.
Thresholds ==
    [thresholds_hi_hot_c |-> 410, thresholds_wct_cold_c |-> -100,
     thresholds_wind_ms |-> 1080, thresholds_rain_mm_per_h |-> 40]

is_very_hot(sample, st) ==
    IF ~IsNone(sample.heat_index_c)
    THEN sample.heat_index_c[1] >= st.thresholds_hi_hot_c
    ELSE sample.temperature_c >= st.thresholds_hi_hot_c

is_very_cold(sample, st) ==
    IF ~IsNone(sample.wind_chill_c)
    THEN sample.wind_chill_c[1] <= st.thresholds_wct_cold_c
    ELSE sample.temperature_c <= st.thresholds_wct_cold_c

is_very_windy(sample, st) == sample.wind_speed_ms >= st.thresholds_wind_ms

\* precipitation_mm_per_day / 8.0 >= thresholds_rain_mm_per_h
is_very_wet(sample, st) ==
    sample.precipitation_mm_per_day * 10 >= 8 * st.thresholds_rain_mm_per_h

flag_weather_conditions(sample, st) ==
    [very_hot |-> is_very_hot(sample, st),
     very_cold |-> is_very_cold(sample, st),
     very_windy |-> is_very_windy(sample, st),
     very_wet |-> is_very_wet(sample, st)]

any_flagged(flags) ==
    flags.very_hot \/ flags.very_cold \/ flags.very_windy \/ flags.very_wet

count_flagged(flags) ==
    (IF flags.very_hot THEN 1 ELSE 0) + (IF flags.very_cold THEN 1 ELSE 0)
    + (IF flags.very_windy THEN 1 ELSE 0) + (IF flags.very_wet THEN 1 ELSE 0)

\* One row of create_export_rows: the flags the exporter computes itself
\* for a sample without hourly precipitation.
ExportRowFlags(s, st) ==
    LET hi_c == heat_index(s.temperature_c, s.relative_humidity)
        wct_c == wind_chill(s.temperature_c, s.wind_speed_ms)
    IN IF hi_c.exc # NoExc THEN Raises(hi_c.exc)
       ELSE IF wct_c.exc # NoExc THEN Raises(wct_c.exc)
       ELSE Returns(Some(
              [very_hot |-> IF ~IsNone(hi_c.value)
                            THEN hi_c.value[1] >= st.thresholds_hi_hot_c
                            ELSE s.temperature_c >= st.thresholds_hi_hot_c,
               very_cold |-> IF ~IsNone(wct_c.value)
                             THEN wct_c.value[1] <= st.thresholds_wct_cold_c
                             ELSE s.temperature_c <= st.thresholds_wct_cold_c,
               very_windy |-> s.wind_speed_ms >= st.thresholds_wind_ms,
               very_wet |-> s.precipitation_mm_per_day * 10
                              >= 24 * st.thresholds_rain_mm_per_h]))

(***************************************************************************)
(* The probability analysis.  A probability is the fraction num/den; a     *)
(* point of the unit interval is a multiple of 1/Grid.  The Beta           *)
(* parameters the interval is computed from are positive integers, for     *)
(* which the regularised incomplete beta function is the binomial tail     *)
(* sum below: beta_cdf is that sum, which the code approximates by a       *)
(* continued fraction.                                                     *)
(***************************************************************************)
\* The points of the unit interval are the multiples of 1/Grid, and the
\* bisection stops at a bracket narrower than Tolerance (1e-12 in the code).
Grid == 64
Tolerance == 4

\* alpha / 2 and 1 - alpha / 2 for the confidence level 0.95.
AlphaHalf == [num |-> 1, den |-> 40]
OneMinusAlphaHalf == [num |-> 39, den |-> 40]

RECURSIVE Power(_, _)
Power(b, e) == IF e = 0 THEN 1 ELSE b * Power(b, e - 1)

RECURSIVE Choose(_, _)
Choose(n, k) ==
    IF k = 0 \/ k = n THEN 1 ELSE Choose(n - 1, k - 1) + Choose(n - 1, k)

RECURSIVE TailSum(_, _, _)
TailSum(x, n, j) ==
    IF j > n THEN 0
    ELSE Choose(n, j) * Power(x, j) * Power(Grid - x, n - j)
         + TailSum(x, n, j + 1)

\* I_x(a, b) for integers a, b: the probability of at least a successes in
\* a + b - 1 trials of probability x.
incomplete_beta(x, a, b) ==
    [num |-> TailSum(x, a + b - 1, a), den |-> Power(Grid, a + b - 1)]

beta_cdf(x, alpha, beta) ==
    IF x = 0 THEN [num |-> 0, den |-> 1]
    ELSE IF x = Grid THEN [num |-> 1, den |-> 1]
    ELSE incomplete_beta(x, alpha, beta)

\* The bisection loop of beta_inverse_cdf with left iterations to go.
RECURSIVE Bisection(_, _, _, _, _, _)
Bisection(p, alpha, beta, lower, upper, left) ==
    IF left = 0 THEN (lower + upper) \div 2
    ELSE LET x == (lower + upper) \div 2
             cdf_x == beta_cdf(x, alpha, beta)
             below == cdf_x.num * p.den < p.num * cdf_x.den
             lower2 == IF below THEN x ELSE lower
             upper2 == IF below THEN upper ELSE x
         IN IF cdf_x.num * p.den = p.num * cdf_x.den THEN x
            ELSE IF upper2 - lower2 < Tolerance THEN (lower2 + upper2) \div 2
            ELSE Bisection(p, alpha, beta, lower2, upper2, left - 1)

\* The quantile of the complementary level.
beta_inverse_cdf_of_complement(p, alpha, beta) ==
    Bisection([num |-> p.den - p.num, den |-> p.den], alpha, beta, 0, Grid, 100)

\* beta_inverse_cdf for a level strictly between 0 and 1.
beta_inverse_cdf(p, alpha, beta) == Bisection(p, alpha, beta, 0, Grid, 100)

\* An interval that takes both bounds from beta quantiles in every case.
clopper_pearson_without_edge_cases(successes, trials) ==
    IF ~(0 <= successes /\ successes <= trials) THEN Raises("ValueError")
    ELSE Returns(Some(
           [lower |-> beta_inverse_cdf(AlphaHalf, successes,
                                       trials - successes + 1),
            upper |-> beta_inverse_cdf(OneMinusAlphaHalf, successes + 1,
                                       trials - successes)]))

clopper_pearson_interval(successes, trials) ==
    IF ~(0 <= successes /\ successes <= trials) THEN Raises("ValueError")
    ELSE IF trials = 0 THEN Returns(Some([lower |-> 0, upper |-> Grid]))
    ELSE IF successes = 0
    THEN Returns(Some([lower |-> 0,
                       upper |-> beta_inverse_cdf(OneMinusAlphaHalf, 1, trials)]))
    ELSE IF successes = trials
    THEN Returns(Some([lower |-> beta_inverse_cdf(AlphaHalf, trials, 1),
                       upper |-> Grid]))
    ELSE Returns(Some(
           [lower |-> beta_inverse_cdf(AlphaHalf, successes,
                                       trials - successes + 1),
            upper |-> beta_inverse_cdf(OneMinusAlphaHalf, successes + 1,
                                       trials - successes)]))

ConditionTypes == {"any", "hot", "cold", "windy", "wet", "multiple"}

\* A count in which every flagged sample counts, whatever the kind.
CountsAsAny(flags, condition_type) == any_flagged(flags)

\* The if/elif chain of calculate_probability: whether a sample with these
\* flags counts as positive.
CountsAsPositive(flags, condition_type) ==
    IF condition_type = "any" THEN any_flagged(flags)
    ELSE IF condition_type = "hot" THEN flags.very_hot
    ELSE IF condition_type = "cold" THEN flags.very_cold
    ELSE IF condition_type = "windy" THEN flags.very_windy
    ELSE IF condition_type = "wet" THEN flags.very_wet
    ELSE IF condition_type = "multiple" THEN count_flagged(flags) >= 2
    ELSE FALSE

RECURSIVE PositiveCount(_, _)
PositiveCount(samples, condition_type) ==
    IF samples = <<>> THEN 0
    ELSE (IF CountsAsPositive(flag_weather_conditions(Head(samples), Thresholds),
                              condition_type)
          THEN 1 ELSE 0)
         + PositiveCount(Tail(samples), condition_type)

estimate_coverage_years(samples) ==
    IF samples = <<>> THEN 0
    ELSE LET years == {samples[i].year : i \in 1..Len(samples)}
             min_year == CHOOSE y \in years : \A z \in years : y <= z
             max_year == CHOOSE y \in years : \A z \in years : z <= y
         IN max_year - min_year + 1

calculate_probability(samples, condition_type, st) ==
    IF samples = <<>> THEN Raises("ValueError")
    ELSE IF condition_type \notin ConditionTypes THEN Raises("ValueError")
    ELSE LET positive_count == PositiveCount(samples, condition_type)
             total_count == Len(samples)
             interval == clopper_pearson_interval(positive_count, total_count)
             coverage_years == estimate_coverage_years(samples)
         IN IF interval.exc # NoExc THEN Raises(interval.exc)
            ELSE Returns(Some(
                   [probability |-> [num |-> positive_count,
                                     den |-> total_count],
                    confidence_interval_lower |-> interval.value[1].lower,
                    confidence_interval_upper |-> interval.value[1].upper,
                    total_samples |-> total_count,
                    positive_samples |-> positive_count,
                    coverage_years |-> coverage_years,
                    coverage_adequate |->
                       /\ coverage_years >= st.coverage_min_years
                       /\ total_count >= st.coverage_min_samples,
                    condition_type |-> condition_type]))

(***************************************************************************)
(* The trend analysis.  A rate and a slope are fractions num/den; the      *)
(* p-value of a trend, which no property below reads, is left out.         *)
(***************************************************************************)
\* A chain that knows only the kind "hot".
ConditionExceededHotOnly(flags, condition_type) ==
    condition_type = "hot" /\ flags.very_hot

\* The if/elif chain of calculate_exceedance_rates_by_year; a kind it does
\* not name leaves condition_exceeded False.
ConditionExceeded(flags, condition_type) ==
    IF condition_type = "hot" THEN flags.very_hot
    ELSE IF condition_type = "cold" THEN flags.very_cold
    ELSE IF condition_type = "windy" THEN flags.very_windy
    ELSE IF condition_type = "wet" THEN flags.very_wet
    ELSE IF condition_type = "any"
    THEN flags.very_hot \/ flags.very_cold \/ flags.very_windy \/ flags.very_wet
    ELSE FALSE

\* The dictionary year -> exceedances / total.
calculate_exceedance_rates_by_year(samples, condition_type) ==
    [y \in {samples[i].year : i \in 1..Len(samples)} |->
        LET of_year == {i \in 1..Len(samples) : samples[i].year = y}
        IN [num |-> Cardinality(
                      {i \in of_year :
                         ConditionExceeded(
                            flag_weather_conditions(samples[i], Thresholds),
                            condition_type)}),
            den |-> Cardinality(of_year)]]

\* sorted(keys)
RECURSIVE Sorted(_)
Sorted(S) ==
    IF S = {} THEN <<>>
    ELSE LET m == CHOOSE x \in S : \A z \in S : x <= z
         IN <<m>> \o Sorted(S \ {m})

RECURSIVE Sum(_)
Sum(values) == IF values = <<>> THEN 0 ELSE Head(values) + Sum(Tail(values))

RECURSIVE Product(_)
Product(values) ==
    IF values = <<>> THEN 1 ELSE Head(values) * Product(Tail(values))

\* numerator / denominator of the least squares slope of the points
\* (x[i], y[i]), the y[i] being fractions: with the means multiplied out,
\* (n * sum(x*y) - sum(x) * sum(y)) / (n * sum(x*x) - sum(x)**2).
LeastSquaresSlope(x, y) ==
    LET n == Len(x)
        common == Product([i \in 1..n |-> y[i].den])
        scaled == [i \in 1..n |-> y[i].num * (common \div y[i].den)]
        numerator == n * Sum([i \in 1..n |-> x[i] * scaled[i]])
                     - Sum(x) * Sum(scaled)
        denominator == n * Sum([i \in 1..n |-> x[i] * x[i]]) - Sum(x) * Sum(x)
    IN IF denominator = 0 THEN [num |-> 0, den |-> 1]
       ELSE [num |-> numerator, den |-> common * denominator]

\* The slope of calculate_ols_slope_and_pvalue.
calculate_ols_slope_and_pvalue(x_values, y_values) ==
    IF Len(x_values) < 3 THEN [num |-> 0, den |-> 1]
    ELSE LeastSquaresSlope(x_values, y_values)

calculate_trend(samples, condition_type) ==
    LET yearly_rates == calculate_exceedance_rates_by_year(samples, condition_type)
        sorted_years == Sorted(DOMAIN yearly_rates)
    IN IF Cardinality(DOMAIN yearly_rates) < 2
       THEN [condition |-> condition_type, points |-> <<>>,
             slope |-> [num |-> 0, den |-> 1]]
       ELSE [condition |-> condition_type,
             points |-> [i \in 1..Len(sorted_years) |->
                           [year |-> sorted_years[i],
                            exceedance_rate |-> yearly_rates[sorted_years[i]]]],
             slope |-> calculate_ols_slope_and_pvalue(
                         sorted_years,
                         [i \in 1..Len(sorted_years) |->
                            yearly_rates[sorted_years[i]]])]

(***************************************************************************)
(* Histograms.  A value of the array is Some(v), or None for NaN; a bin    *)
(* edge is a fraction num/den.  The descriptive statistics of a            *)
(* distribution, which no property below reads, are left out.              *)
(***************************************************************************)
\* numpy.linspace(start, stop, n_points): n_points evenly spaced points,
\* the first start and, from two points on, the last stop.
linspace(start, stop, n_points) ==
    IF n_points = 1 THEN <<[num |-> start, den |-> 1]>>
    ELSE [i \in 1..n_points |->
            [num |-> start * (n_points - 1) + (i - 1) * (stop - start),
             den |-> n_points - 1]]

\* a < b and a <= b for fractions of positive denominators.
Less(a, b) == a.num * b.den < b.num * a.den
AtMost(a, b) == a.num * b.den <= b.num * a.den

\* values[~np.isnan(values)]
RECURSIVE CleanValues(_)
CleanValues(values) ==
    IF values = <<>> THEN <<>>
    ELSE (IF IsNone(Head(values)) THEN <<>> ELSE <<Head(values)[1]>>)
         \o CleanValues(Tail(values))

\* numpy.histogram(values, bins=bin_edges): a bin holds the values from its
\* lower edge up to but excluding its upper edge, the last bin including it.
histogram(clean_values, bin_edges) ==
    LET below(e) == Cardinality({i \in 1..Len(clean_values) :
                       Less([num |-> clean_values[i], den |-> 1], e)})
        up_to(e) == Cardinality({i \in 1..Len(clean_values) :
                       AtMost([num |-> clean_values[i], den |-> 1], e)})
        last == Len(bin_edges) - 1
    IN [i \in 1..last |->
          (IF i = last THEN up_to(bin_edges[i + 1]) ELSE below(bin_edges[i + 1]))
          - below(bin_edges[i])]

\* Linearly spaced edges over the whole range, whatever the threshold.
calculate_histogram_bins_ignoring_threshold(values, n_bins, threshold_value) ==
    LET clean_values == CleanValues(values)
        present == {clean_values[i] : i \in 1..Len(clean_values)}
        min_val == CHOOSE x \in present : \A z \in present : x <= z
        max_val == CHOOSE x \in present : \A z \in present : z <= x
        bin_edges == linspace(min_val, max_val, n_bins + 1)
    IN IF clean_values = <<>> THEN [bin_edges |-> <<>>, counts |-> <<>>]
       ELSE [bin_edges |-> bin_edges,
             counts |-> histogram(clean_values, bin_edges)]

calculate_histogram_bins(values, n_bins, threshold_value) ==
    LET clean_values == CleanValues(values)
        present == {clean_values[i] : i \in 1..Len(clean_values)}
        min_val == CHOOSE x \in present : \A z \in present : x <= z
        max_val == CHOOSE x \in present : \A z \in present : z <= x
        bin_edges ==
            IF ~IsNone(threshold_value) /\ min_val <= threshold_value[1]
               /\ threshold_value[1] <= max_val
            THEN linspace(min_val, threshold_value[1], n_bins \div 2 + 1)
                 \o Tail(linspace(threshold_value[1], max_val,
                                  n_bins \div 2 + 1))
            ELSE linspace(min_val, max_val, n_bins + 1)
    IN IF clean_values = <<>> THEN [bin_edges |-> <<>>, counts |-> <<>>]
       ELSE [bin_edges |-> bin_edges,
             counts |-> histogram(clean_values, bin_edges)]

create_distribution(values, threshold_value, n_bins) ==
    LET clean_values == CleanValues(values)
        h == calculate_histogram_bins(values, n_bins, threshold_value)
    IN IF clean_values = <<>>
       THEN [bins |-> <<>>, threshold_value |-> threshold_value]
       ELSE [bins |-> [i \in 1..Len(h.counts) |->
                         [lower_bound |-> h.bin_edges[i],
                          upper_bound |-> h.bin_edges[i + 1],
                          count |-> h.counts[i],
                          frequency |-> [num |-> h.counts[i],
                                         den |-> Len(clean_values)]]],
             threshold_value |-> threshold_value]

(***************************************************************************)
(* ImergClient.aggregate_to_hourly.  A half-hourly point is                *)
(* [half_hour, precipitation_mm, quality_flag]: its UTC timestamp as the   *)
(* number of half hours since midnight, its rate in mm/h and its quality   *)
(* flag, None when it has none.  Amounts and scores are fractions.         *)
(***************************************************************************)
\* ZoneInfo(timezone) raises for a key that names no zone.
ZoneInfoRaises(timezone) ==
    timezone \notin {"UTC", "America/Fortaleza", "Asia/Tokyo"}

\* point.timestamp.astimezone(tz).hour
LocalHour(point, timezone) ==
    (point.half_hour \div 2 + UtcOffset(timezone)) % 24

\* (point.quality_flag or 80): 80 for a point without flag, and for the
\* flag 0.
QualityOrDefault(quality_flag) ==
    IF IsNone(quality_flag) THEN 80
    ELSE IF quality_flag[1] = 0 THEN 80
    ELSE quality_flag[1]

\* The loop over the points: hourly_data after the points given.
RECURSIVE Accumulated(_, _, _)
Accumulated(points, timezone, hourly_data) ==
    IF points = <<>> THEN hourly_data
    ELSE LET point == Head(points)
             hour_key == LocalHour(point, timezone)
             before == IF hour_key \in DOMAIN hourly_data
                       THEN hourly_data[hour_key]
                       ELSE [precipitation_sum |-> 0, quality_sum |-> 0,
                             count |-> 0]
             after == [precipitation_sum |->
                          before.precipitation_sum + point.precipitation_mm,
                       quality_sum |->
                          before.quality_sum
                          + QualityOrDefault(point.quality_flag),
                       count |-> before.count + 1]
         IN Accumulated(Tail(points), timezone,
                        [h \in DOMAIN hourly_data \cup {hour_key} |->
                           IF h = hour_key THEN after ELSE hourly_data[h]])

\* precipitation_sum is kept in halves of a mm (rate * 0.5 h), quality_sum
\* in hundredths.
aggregate_to_hourly(points, timezone) ==
    IF points = <<>> THEN <<>>
    ELSE IF ZoneInfoRaises(timezone) THEN <<>>
    ELSE LET hourly_data == Accumulated(points, timezone, <<>>)
             hours == Sorted(DOMAIN hourly_data)
         IN [i \in 1..Len(hours) |->
               LET data == hourly_data[hours[i]]
               IN [hour |-> hours[i],
                   total_mm |-> [num |-> data.precipitation_sum, den |-> 2],
                   avg_rate_mm_hr |-> [num |-> data.precipitation_sum,
                                       den |-> 2],
                   data_points |-> data.count,
                   quality_score |-> [num |-> data.quality_sum,
                                      den |-> 100 * data.count],
                   source |-> "IMERG"]]

(***************************************************************************)
(* Day-of-year windows.                                                    *)
(***************************************************************************)
\* "Handle year boundary wrapping": one step of 365 days, in one direction.
WrapDoy(doy_val) ==
    IF doy_val < 1 THEN 365 + doy_val
    ELSE IF doy_val > 365 THEN doy_val - 365
    ELSE doy_val

\* sorted(...) of a set of integers between low and high.
RECURSIVE SortedBetween(_, _, _)
SortedBetween(S, low, high) ==
    IF low > high THEN <<>>
    ELSE IF low = high THEN (IF low \in S THEN <<low>> ELSE <<>>)
    ELSE LET middle == (low + high) \div 2
         IN SortedBetween(S, low, middle) \o SortedBetween(S, middle + 1, high)

build_date_range_for_doy(target_doy, window_days) ==
    IF ~(1 <= target_doy /\ target_doy <= 365) THEN Raises("ValueError")
    ELSE IF window_days < 0 THEN Raises("ValueError")
    ELSE Returns(Some(SortedBetween(
                        {WrapDoy(target_doy + offset) :
                           offset \in -window_days..window_days},
                        IF target_doy - window_days + 365 < 1
                        THEN target_doy - window_days + 365 ELSE 1,
                        IF target_doy + window_days - 365 > 365
                        THEN target_doy + window_days - 365 ELSE 365)))

(***************************************************************************)
(* PrecipitationClient.get_hourly_precipitation: the half-hourly source    *)
(* first, then the daily reanalysis total spread over the day.             *)
(***************************************************************************)
\* An hourly entry; total_mm is the fraction num/den.
HourlyEntry(hour, num, den, source) ==
    [hour |-> hour, total_mm |-> [num |-> num, den |-> den], source |-> source]

\* What imerg_client.get_hourly_precipitation can do: raise, or return a
\* list of hourly points, which may be empty.
\* For coordinates out of range the source returns the empty list.
ImergOutcomes(latitude, longitude) ==
    IF ~(-90 <= latitude /\ latitude <= 90)
       \/ ~(-180 <= longitude /\ longitude <= 180)
    THEN {[raised |-> FALSE, points |-> <<>>]}
    ELSE {[raised |-> TRUE, points |-> <<>>],
          [raised |-> FALSE, points |-> <<>>],
          [raised |-> FALSE, points |-> <<HourlyEntry(0, 1, 1, "IMERG")>>],
          [raised |-> FALSE,
           points |-> <<HourlyEntry(0, 1, 1, "IMERG"),
                        HourlyEntry(1, 0, 1, "IMERG")>>]}

\* A client that hands on to the fallback whatever the half-hourly source
\* returned.
ImergNeverReturned(imerg) == FALSE

\* "if imerg_data:" inside the try block: the call returns the half-hourly
\* points when the source returned at least one.
ImergReturned(imerg) == ~imerg.raised /\ imerg.points # <<>>

\* The conversion of the half-hourly points to the unified format.
RECURSIVE Unified(_)
Unified(points) ==
    IF points = <<>> THEN <<>>
    ELSE <<HourlyEntry(Head(points).hour, Head(points).total_mm.num,
                       Head(points).total_mm.den, "IMERG")>>
         \o Unified(Tail(points))

\* The 24 uniform hours built from a daily total.
Uniform24(daily_precip) ==
    [h \in 1..24 |-> HourlyEntry(h - 1, daily_precip, 24, "POWER_fallback")]

\* The fallback reads power_data.data[0].precipitation_mm.  get_daily_data
\* returns the response's dict, which has no attribute `data`.
DictHasAttribute(name) == FALSE

\* The fallback's try block once get_daily_data ended as res for the day
\* `day`: any exception is caught and the call returns the empty list.
FallbackEntries(res, day) ==
    IF res.exc # NoExc THEN <<>>
    ELSE IF ~DictHasAttribute("data") THEN <<>>
    ELSE Uniform24(PrecipitationOf(res.data, day))

\* The progress of a get_hourly_precipitation call.
NoPrecip ==
    [enable_imerg |-> TRUE, enable_fallback |-> TRUE,
     imerg_calls |-> 0, imerg |-> [raised |-> FALSE, points |-> <<>>],
     power_calls |-> 0, returned |-> FALSE, result |-> <<>>]

(***************************************************************************)
(* Concurrent collect_samples calls.  Each call is an asyncio task with    *)
(* its own local variables; a task is [pc, year, in_flight, issued, ended, *)
(* all_samples, years_with_data, exc], in_flight being the years whose     *)
(* fetch has been started and has not ended, issued the years in the       *)
(* order their fetches were started, ended the fetches that ended.  A      *)
(* sample is [origin, year]: the call whose request it answers.            *)
(***************************************************************************)
TaskIds == {1, 2}

\* The list a call extends with the samples of a year: another call's.
SharedList(c) == 1

\* The list a call extends with the samples of a year: its own local
\* all_samples.
ListOf(c) == c

\* How the fetch of a year ends: with samples, without, raising a
\* PowerAPIError or raising something else.
FetchOutcomes == {"samples", "empty", "PowerAPIError", "ValueError"}

IdleTask ==
    [pc |-> "idle", year |-> EpochYear, in_flight |-> {}, issued |-> <<>>,
     ended |-> <<>>, all_samples |-> <<>>, years_with_data |-> 0,
     exc |-> NoExc]

(***************************************************************************)
(* Inputs.                                                                 *)
(***************************************************************************)
\* coverage_min_samples of the settings objects of the model.
MinSamples == 2

\* A valid collect_samples call; the other calls differ from it in the
\* fields named below.
BaseReq ==
    [kind |-> "collect", latitude |-> 0, longitude |-> 0, date_form |-> "iso",
     target_doy |-> 166, target_hour |-> 14, window_days |-> 1,
     baseline_start_year |-> EpochYear, baseline_end_year |-> EpochYear,
     detail |-> "lean", format |-> "csv"]

\* Target day of year and window_days of the valid calls: mid-year, and the
\* last day of a leap year with and without a window.
Targets == {<<166, 1>>, <<366, 0>>, <<366, 1>>}

\* Baselines of at most MaxYears years starting in a common or a leap year.
Baselines ==
    {<<a, b>> \in (EpochYear..EpochYear + 1) \X (EpochYear..EpochYear + MaxYears) :
        a <= b /\ b - a + 1 <= MaxYears}

\* Arguments with one field out of range.
BadFields ==
    {[BaseReq EXCEPT !.latitude = 91], [BaseReq EXCEPT !.longitude = -181],
     [BaseReq EXCEPT !.target_hour = 24], [BaseReq EXCEPT !.window_days = -1],
     [BaseReq EXCEPT !.date_form = "basic"], [BaseReq EXCEPT !.date_form = "bad"]}

CollectReqs ==
    {[BaseReq EXCEPT !.target_doy = t[1], !.window_days = t[2],
                     !.baseline_start_year = bl[1], !.baseline_end_year = bl[2]] :
        t \in Targets, bl \in Baselines}
    \cup BadFields
    \cup {[BaseReq EXCEPT !.baseline_end_year = EpochYear - 1]}
    \cup {[BaseReq EXCEPT !.longitude = -38],
          [BaseReq EXCEPT !.longitude = 139, !.target_hour = 23],
          [BaseReq EXCEPT !.target_hour = 12]}

\* The handlers call collect_samples with its default baseline (2001..2023 in
\* the code, MaxYears years here).
ApiBase(k) ==
    [BaseReq EXCEPT !.kind = k, !.baseline_end_year = EpochYear + MaxYears - 1]

ApiReqs ==
    {[ApiBase("risk") EXCEPT !.detail = dt] : dt \in {"lean", "full", "all"}}
    \cup {[ApiBase("export") EXCEPT !.format = f] : f \in {"csv", "json", "xml"}}
    \cup {[x EXCEPT !.kind = k, !.baseline_end_year = EpochYear + MaxYears - 1] :
             x \in BadFields, k \in {"risk", "export"}}
    \cup {[ApiBase(k) EXCEPT !.window_days = 0] : k \in {"risk", "export"}}

\* The arguments of a direct get_daily_data call.
DailyCalls ==
    [latitude : {0, 91}, longitude : {0, -181},
     start_date : {0, 1}, end_date : {0, 1}]

NoCall == [latitude |-> 0, longitude |-> 0, start_date |-> 0, end_date |-> 0]

\* Settings(): the fields of app/config.py that the pipeline reads.
Settings(min_years, enforce) ==
    [coverage_min_years |-> min_years, coverage_min_samples |-> MinSamples,
     coverage_enforce |-> enforce]

Pending == "pending"

\* The observations a threshold-engine WeatherSample is built from: below
\* and above the validity domains of the two indices, and outside the
\* ranges the index functions accept.
Observations ==
    [temperature_c : {-150, 50, 250, 350, 450},
     relative_humidity : {-1, 30, 50, 101},
     wind_speed_ms : {-100, 100, 300, 1200},
     precipitation_mm_per_day : {0, 40, 100},
     year : {EpochYear}]

\* The longest list of samples analysed, and the largest number of trials
\* of an interval.
MaxSamples == 3

\* The observations of the analysed samples: a hot one, a cold and windy
\* one, a wet one, and an unremarkable one of each of three years.
AnalysedObservations ==
    {[temperature_c |-> 450, relative_humidity |-> 50, wind_speed_ms |-> 100,
      precipitation_mm_per_day |-> 0, year |-> EpochYear],
     [temperature_c |-> -150, relative_humidity |-> 50, wind_speed_ms |-> 1200,
      precipitation_mm_per_day |-> 0, year |-> EpochYear],
     [temperature_c |-> 250, relative_humidity |-> 50, wind_speed_ms |-> 100,
      precipitation_mm_per_day |-> 40, year |-> EpochYear],
     [temperature_c |-> 250, relative_humidity |-> 50, wind_speed_ms |-> 100,
      precipitation_mm_per_day |-> 0, year |-> EpochYear],
     [temperature_c |-> 250, relative_humidity |-> 50, wind_speed_ms |-> 100,
      precipitation_mm_per_day |-> 0, year |-> EpochYear + 1],
     [temperature_c |-> 250, relative_humidity |-> 50, wind_speed_ms |-> 100,
      precipitation_mm_per_day |-> 0, year |-> EpochYear + 2]}

\* The lists of at most MaxSamples constructed samples.
SampleLists ==
    UNION {[1..n -> {ThresholdSample(o).value[1] : o \in AnalysedObservations}] :
             n \in 0..MaxSamples}

\* The arguments of build_date_range_for_doy: days at both ends of the
\* year, in its middle and outside it; windows shorter than, as long as
\* and longer than a year, and a negative one.
DoyTargets == {0, 1, 3, 100, 364, 365, 366}
DoyWindows == {-1, 0, 1, 5, 182, 183, 365, 366, 400}

\* The arrays a distribution is created from: at most MaxSamples values,
\* each 1, 3 or NaN; the thresholds: none, below, at, between and above
\* the values; the numbers of bins asked for.
ValueArrays == UNION {[1..n -> {None, Some(1), Some(3)}] : n \in 0..MaxSamples}
ThresholdValues == {None, Some(0), Some(1), Some(2), Some(3), Some(4)}
BinNumbers == {1, 2, 3, 4}

\* The longest list of half-hourly points aggregated.
MaxPoints == 2

\* Half-hourly points: the two halves of the hour 0 and the first half of
\* the hours 1 and 23 UTC, dry or raining, without flag, with the flag 0
\* and with the flag 90.
HalfHourlyPoints ==
    [half_hour : {0, 1, 2, 46}, precipitation_mm : {0, 3},
     quality_flag : {None, Some(0), Some(90)}]

PointLists == UNION {[1..n -> HalfHourlyPoints] : n \in 0..MaxPoints}

\* A direct call of a function: its arguments, and what it gave.
NoCalc ==
    [kind |-> "none",
     sample |-> [temperature_c |-> 250, relative_humidity |-> 50,
                 wind_speed_ms |-> 100, precipitation_mm_per_day |-> 0,
                 year |-> EpochYear],
     hi |-> Returns(None), wc |-> Returns(None), fl |-> Returns(None),
     engine |-> Returns(None), export |-> Returns(None),
     samples |-> <<>>, condition_type |-> "any", result |-> Returns(None),
     successes |-> 0, trials |-> 0, interval |-> Returns(None),
     rates |-> <<>>,
     target_doy |-> 1, window_days |-> 0, doy_range |-> Returns(None),
     values |-> <<>>, threshold_value |-> None, n_bins |-> 2,
     points |-> <<>>, timezone |-> "UTC", hourly |-> <<>>,
     distribution |-> [bins |-> <<>>, threshold_value |-> None],
     trend |-> [condition |-> "any", points |-> <<>>,
                slope |-> [num |-> 0, den |-> 1]]]

Init ==
    /\ \/ /\ req \in CollectReqs
          /\ settings \in {Settings(m, e) : m \in {1, MaxYears},
                                            e \in {"true", "false", Absent}}
          /\ req.target_doy = BaseReq.target_doy \/ settings = Settings(1, "false")
          /\ call = NoCall
          /\ pc = "collect"
          /\ precip = NoPrecip
          /\ calc = NoCalc
          /\ tasks = [c \in TaskIds |-> IdleTask]
       \/ /\ req \in ApiReqs
          /\ settings \in {Settings(m, Absent) : m \in {1, MaxYears}}
          /\ call = NoCall
          /\ pc = "handler"
          /\ precip = NoPrecip
          /\ calc = NoCalc
          /\ tasks = [c \in TaskIds |-> IdleTask]
       \/ /\ req = [BaseReq EXCEPT !.kind = "daily"]
          /\ settings = Settings(1, Absent)
          /\ call \in DailyCalls
          /\ pc = "daily"
          /\ precip = NoPrecip
          /\ calc = NoCalc
          /\ tasks = [c \in TaskIds |-> IdleTask]
       \/ /\ req \in {[BaseReq EXCEPT !.kind = "precip", !.latitude = lat] :
                        lat \in {0, 91}}
          /\ settings = Settings(1, Absent)
          /\ call = NoCall
          /\ pc = "precip"
          /\ precip \in {[NoPrecip EXCEPT !.enable_imerg = i,
                                          !.enable_fallback = f] :
                           i \in BOOLEAN, f \in BOOLEAN}
          /\ calc = NoCalc
          /\ tasks = [c \in TaskIds |-> IdleTask]
       \/ /\ req = [BaseReq EXCEPT !.kind = "sample"]
          /\ settings = Settings(1, Absent)
          /\ call = NoCall
          /\ pc = "indices"
          /\ precip = NoPrecip
          /\ calc \in {[NoCalc EXCEPT !.kind = "sample", !.sample = o] :
                         o \in Observations}
          /\ tasks = [c \in TaskIds |-> IdleTask]
       \/ /\ req = [BaseReq EXCEPT !.kind = "probability"]
          /\ settings \in {Settings(m, Absent) : m \in {1, MaxYears, MaxYears + 1}}
          /\ call = NoCall
          /\ pc = "probability"
          /\ precip = NoPrecip
          /\ calc \in {[NoCalc EXCEPT !.kind = "probability", !.samples = l,
                                       !.condition_type = c] :
                         l \in SampleLists, c \in ConditionTypes \cup {"storm"}}
          /\ tasks = [c \in TaskIds |-> IdleTask]
       \/ /\ req = [BaseReq EXCEPT !.kind = "doy_range"]
          /\ settings = Settings(1, Absent)
          /\ call = NoCall
          /\ pc = "doy_range"
          /\ precip = NoPrecip
          /\ calc \in {[NoCalc EXCEPT !.kind = "doy_range", !.target_doy = d,
                                       !.window_days = w] :
                         d \in DoyTargets, w \in DoyWindows}
          /\ tasks = [c \in TaskIds |-> IdleTask]
       \/ /\ req = [BaseReq EXCEPT !.kind = "distribution"]
          /\ settings = Settings(1, Absent)
          /\ call = NoCall
          /\ pc = "distribution"
          /\ precip = NoPrecip
          /\ calc \in {[NoCalc EXCEPT !.kind = "distribution", !.values = v,
                                       !.threshold_value = t, !.n_bins = n] :
                         v \in ValueArrays, t \in ThresholdValues,
                         n \in BinNumbers}
          /\ tasks = [c \in TaskIds |-> IdleTask]
       \/ /\ req = [BaseReq EXCEPT !.kind = "aggregate"]
          /\ settings = Settings(1, Absent)
          /\ call = NoCall
          /\ pc = "aggregate"
          /\ precip = NoPrecip
          /\ calc \in {[NoCalc EXCEPT !.kind = "aggregate", !.points = l,
                                       !.timezone = z] :
                         l \in PointLists,
                         z \in {"UTC", "America/Fortaleza", "Asia/Tokyo",
                                "Mars/Phobos"}}
          /\ tasks = [c \in TaskIds |-> IdleTask]
       \/ /\ req = [BaseReq EXCEPT !.kind = "concurrent",
                                   !.baseline_end_year = EpochYear + MaxYears - 1]
          /\ settings = Settings(1, Absent)
          /\ call = NoCall
          /\ pc = "tasks"
          /\ precip = NoPrecip
          /\ calc = NoCalc
          /\ tasks = [c \in TaskIds |-> [IdleTask EXCEPT !.pc = "loop"]]
       \/ /\ req = [BaseReq EXCEPT !.kind = "interval"]
          /\ settings = Settings(1, Absent)
          /\ call = NoCall
          /\ pc = "interval"
          /\ precip = NoPrecip
          /\ calc \in {[NoCalc EXCEPT !.kind = "interval", !.trials = n,
                                       !.successes = k] :
                         n \in 0..MaxSamples, k \in -1..MaxSamples + 1}
          /\ tasks = [c \in TaskIds |-> IdleTask]
    /\ attempts = 0
    /\ requests_sent = 0
    /\ last_resp = NoAnswer
    /\ daily_result = [exc |-> Pending, data |-> EmptyMap]
    /\ year = req.baseline_start_year
    /\ year_samples = <<>>
    /\ all_samples = <<>>
    /\ years_with_data = 0
    /\ fetch_log = <<>>
    /\ outcome = [exc |-> Pending, collection |-> NoCollection]
    /\ http = Answer(0, "none")

(***************************************************************************)
(* Actions.                                                                *)
(***************************************************************************)
\* Where a collect_samples call that has ended hands over.
AfterCollect == IF req.kind = "collect" THEN "done" ELSE "respond"

\* collect_samples ends raising exc.
Raise(exc) == [exc |-> exc, collection |-> NoCollection]

\* The dates of a call's range the upstream answers for.
WindowDates(c) ==
    {d \in c.start_date..c.end_date : d < c.start_date + MaxDays}

\* The number formats of the upstream's bodies in this run.
Formats == IF req.kind = "risk" THEN {TRUE, FALSE} ELSE {FALSE}

\* get_daily_data called directly, up to its first HTTP GET.
StartDaily ==
    /\ pc = "daily"
    /\ IF DailyArgsRejected(call)
       THEN /\ daily_result' = [exc |-> "ValueError", data |-> EmptyMap]
            /\ pc' = "done"
       ELSE /\ pc' = "request"
            /\ UNCHANGED daily_result
    /\ attempts' = 0
    /\ UNCHANGED <<tasks, calc, precip, req, settings, call, requests_sent, last_resp, year,
                   year_samples, all_samples, years_with_data, fetch_log, outcome, http>>

\* assess_risk and export_data up to the call of collect_samples: the
\* validation of the request model.
StartHandler ==
    /\ pc = "handler"
    /\ IF RequestRejected(req)
       THEN /\ http' = Answer(422, "error")
            /\ pc' = "done"
       ELSE /\ pc' = "collect"
            /\ UNCHANGED http
    /\ UNCHANGED <<tasks, calc, precip, req, settings, call, attempts, requests_sent, last_resp,
                   daily_result, year, year_samples, all_samples, years_with_data,
                   fetch_log, outcome>>

\* collect_samples up to the year loop.
StartCollect ==
    /\ pc = "collect"
    /\ IF CollectArgsRejected(req)
       THEN /\ outcome' = Raise("ValueError")
            /\ pc' = AfterCollect
       ELSE /\ pc' = "loop"
            /\ UNCHANGED outcome
    /\ year' = req.baseline_start_year
    /\ all_samples' = <<>>
    /\ years_with_data' = 0
    /\ UNCHANGED <<tasks, calc, precip, req, settings, call, attempts, requests_sent, last_resp,
                   daily_result, year_samples, fetch_log, http>>

\* One iteration of the year loop up to the HTTP GET: the date range and the
\* argument checks of get_daily_data.
BeginYear ==
    /\ pc = "loop"
    /\ year <= req.baseline_end_year
    /\ call' = YearCall(req, year)
    /\ attempts' = 0
    /\ IF DailyArgsRejected(call')
       THEN /\ daily_result' = [exc |-> "ValueError", data |-> EmptyMap]
            /\ fetch_log' = Append(fetch_log, "ValueError")
            /\ IF YearExceptClause("ValueError") = "skip"
               THEN /\ year' = year + 1
                    /\ pc' = "loop"
                    /\ UNCHANGED outcome
               ELSE /\ outcome' = Raise(YearExceptClause("ValueError"))
                    /\ pc' = AfterCollect
                    /\ UNCHANGED year
       ELSE /\ pc' = "request"
            /\ UNCHANGED <<daily_result, fetch_log, year, outcome>>
    /\ UNCHANGED <<tasks, calc, precip, req, settings, requests_sent, last_resp, year_samples,
                   all_samples, years_with_data, http>>

\* How get_daily_data ends once _make_request has ended in `decision` on the
\* answer resp.
DailyEnds(decision, resp) ==
    IF decision # NoExc THEN [exc |-> decision, data |-> EmptyMap]
    ELSE IF validate_response_data(resp) # NoExc
    THEN [exc |-> validate_response_data(resp), data |-> EmptyMap]
    ELSE [exc |-> NoExc, data |-> ReturnedData(resp)]

\* The year loop's handling of a get_daily_data call that ended as res.
HandleYear(res, resp) ==
    /\ fetch_log' = Append(fetch_log, res.exc)
    /\ IF res.exc = NoExc
       THEN /\ year_samples' =
                  collect_samples_for_year(
                      res.data, resp, req.target_hour,
                      tz_for_point(req.latitude, req.longitude))
            /\ all_samples' = all_samples \o year_samples'
            /\ years_with_data' =
                   IF year_samples' # <<>> THEN years_with_data + 1
                   ELSE years_with_data
            /\ year' = year + 1
            /\ pc' = "loop"
            /\ UNCHANGED outcome
       ELSE IF YearExceptClause(res.exc) = "skip"
       THEN /\ year' = year + 1
            /\ pc' = "loop"
            /\ UNCHANGED <<year_samples, all_samples, years_with_data, outcome>>
       ELSE /\ outcome' = Raise(YearExceptClause(res.exc))
            /\ pc' = AfterCollect
            /\ UNCHANGED <<year_samples, all_samples, years_with_data, year>>

\* One HTTP GET of _make_request and what follows it up to the next await:
\* another attempt, or the end of get_daily_data and its caller's handling.
MakeRequestAttempt ==
    /\ pc = "request"
    /\ \E resp \in Answers(WindowDates(call), Formats) :
         LET n == attempts + 1
             decision == RetryDecision(AttemptRaises(resp), n)
         IN /\ attempts' = n
            /\ requests_sent' = requests_sent + 1
            /\ last_resp' = resp
            /\ IF decision = "retry"
               THEN /\ pc' = "request"
                    /\ UNCHANGED <<daily_result, year, year_samples,
                                   all_samples, years_with_data, fetch_log,
                                   outcome>>
               ELSE /\ daily_result' = DailyEnds(decision, resp)
                    /\ IF req.kind \in {"daily", "precip"}
                       THEN /\ pc' = IF req.kind = "daily" THEN "done"
                                     ELSE "synthesise"
                            /\ UNCHANGED <<year, year_samples, all_samples,
                                           years_with_data, fetch_log,
                                           outcome>>
                       ELSE HandleYear(daily_result', resp)
    /\ UNCHANGED <<tasks, calc, precip, req, settings, call, http>>

\* collect_samples after the loop: the coverage check and the result.
CheckCoverage ==
    /\ pc = "loop"
    /\ year > req.baseline_end_year
    /\ LET exc == CoverageCheck(settings, years_with_data, Len(all_samples))
       IN outcome' =
            IF exc # NoExc THEN Raise(exc)
            ELSE [exc |-> NoExc,
                  collection |->
                    [returned |-> TRUE, samples |-> all_samples,
                     years_with_data |-> years_with_data,
                     total_samples |-> Len(all_samples),
                     coverage_adequate |->
                       CoverageAdequate(settings, years_with_data,
                                        Len(all_samples))]]
    /\ pc' = AfterCollect
    /\ UNCHANGED <<tasks, calc, precip, req, settings, call, attempts, requests_sent, last_resp,
                   daily_result, year, year_samples, all_samples, years_with_data,
                   fetch_log, http>>

\* assess_risk from the end of collect_samples to its answer.
AssessRisk ==
    /\ pc = "respond"
    /\ req.kind = "risk"
    /\ http' = assess_risk(outcome, req)
    /\ pc' = "done"
    /\ UNCHANGED <<tasks, calc, precip, req, settings, call, attempts, requests_sent, last_resp,
                   daily_result, year, year_samples, all_samples, years_with_data,
                   fetch_log, outcome>>

\* export_data from the end of collect_samples to its answer.
ExportData ==
    /\ pc = "respond"
    /\ req.kind = "export"
    /\ http' = export_data(outcome, req)
    /\ pc' = "done"
    /\ UNCHANGED <<tasks, calc, precip, req, settings, call, attempts, requests_sent, last_resp,
                   daily_result, year, year_samples, all_samples, years_with_data,
                   fetch_log, outcome>>

\* The day a get_hourly_precipitation call asks for.
PrecipDay == DateOfDoy(req.baseline_start_year, req.target_doy)

\* "Fallback to POWER if IMERG failed or is disabled", up to the HTTP GET,
\* the half-hourly step having left the call's progress as p.
BeginFallback(p) ==
    IF p.enable_fallback
    THEN /\ call' = [latitude |-> req.latitude, longitude |-> req.longitude,
                     start_date |-> PrecipDay, end_date |-> PrecipDay]
         /\ attempts' = 0
         /\ IF DailyArgsRejected(call')
            THEN /\ daily_result' = [exc |-> "ValueError", data |-> EmptyMap]
                 /\ precip' = [p EXCEPT !.power_calls = @ + 1,
                                        !.returned = TRUE,
                                        !.result = FallbackEntries(daily_result',
                                                                   PrecipDay)]
                 /\ pc' = "done"
            ELSE /\ precip' = [p EXCEPT !.power_calls = @ + 1]
                 /\ pc' = "request"
                 /\ UNCHANGED daily_result
    ELSE /\ precip' = [p EXCEPT !.returned = TRUE, !.result = <<>>]
         /\ pc' = "done"
         /\ UNCHANGED <<call, attempts, daily_result>>

\* get_hourly_precipitation up to its first await.
StartPrecip ==
    /\ pc = "precip"
    /\ IF precip.enable_imerg
       THEN /\ precip' = [precip EXCEPT !.imerg_calls = @ + 1]
            /\ pc' = "imerg"
            /\ UNCHANGED <<call, attempts, daily_result>>
       ELSE BeginFallback(precip)
    /\ UNCHANGED <<tasks, calc, req, settings, requests_sent, last_resp, year,
                   year_samples, all_samples, years_with_data, fetch_log,
                   outcome, http>>

\* The half-hourly source ends, and the call returns its points or goes on
\* to the fallback.
ImergAnswers ==
    /\ pc = "imerg"
    /\ \E imerg \in ImergOutcomes(req.latitude, req.longitude) :
         IF ImergReturned(imerg)
         THEN /\ precip' = [precip EXCEPT !.imerg = imerg,
                                          !.returned = TRUE,
                                          !.result = Unified(imerg.points)]
              /\ pc' = "done"
              /\ UNCHANGED <<call, attempts, daily_result>>
         ELSE BeginFallback([precip EXCEPT !.imerg = imerg])
    /\ UNCHANGED <<tasks, calc, req, settings, requests_sent, last_resp, year,
                   year_samples, all_samples, years_with_data, fetch_log,
                   outcome, http>>

\* The fallback after get_daily_data ended.
Synthesise ==
    /\ pc = "synthesise"
    /\ precip' = [precip EXCEPT !.returned = TRUE,
                                !.result = FallbackEntries(daily_result,
                                                           call.start_date)]
    /\ pc' = "done"
    /\ UNCHANGED <<tasks, calc, req, settings, call, attempts, requests_sent, last_resp,
                   daily_result, year, year_samples, all_samples,
                   years_with_data, fetch_log, outcome, http>>

\* heat_index, wind_chill and feels_like_temperature called on the
\* observations.
ComputeIndices ==
    /\ pc = "indices"
    /\ calc' = [calc EXCEPT
          !.hi = heat_index(calc.sample.temperature_c,
                            calc.sample.relative_humidity),
          !.wc = wind_chill(calc.sample.temperature_c,
                            calc.sample.wind_speed_ms),
          !.fl = feels_like_temperature(calc.sample.temperature_c,
                                        calc.sample.relative_humidity,
                                        calc.sample.wind_speed_ms)]
    /\ pc' = "flags"
    /\ UNCHANGED <<tasks, precip, req, settings, call, attempts, requests_sent,
                   last_resp, daily_result, year, year_samples, all_samples,
                   years_with_data, fetch_log, outcome, http>>

\* flag_weather_conditions(WeatherSample(...), Settings()).
FlagSample ==
    /\ pc = "flags"
    /\ LET built == ThresholdSample(calc.sample)
       IN calc' = [calc EXCEPT !.engine =
             IF built.exc # NoExc THEN Raises(built.exc)
             ELSE Returns(Some(flag_weather_conditions(built.value[1],
                                                       Thresholds)))]
    /\ pc' = "export_row"
    /\ UNCHANGED <<tasks, precip, req, settings, call, attempts, requests_sent,
                   last_resp, daily_result, year, year_samples, all_samples,
                   years_with_data, fetch_log, outcome, http>>

\* create_export_rows on a collection holding the same observations.
ExportRow ==
    /\ pc = "export_row"
    /\ calc' = [calc EXCEPT !.export = ExportRowFlags(calc.sample, Thresholds)]
    /\ pc' = "done"
    /\ UNCHANGED <<tasks, precip, req, settings, call, attempts, requests_sent,
                   last_resp, daily_result, year, year_samples, all_samples,
                   years_with_data, fetch_log, outcome, http>>

CalculateProbability ==
    /\ pc = "probability"
    /\ calc' = [calc EXCEPT !.result =
          calculate_probability(calc.samples, calc.condition_type, settings)]
    /\ pc' = "trend"
    /\ UNCHANGED <<tasks, precip, req, settings, call, attempts, requests_sent,
                   last_resp, daily_result, year, year_samples, all_samples,
                   years_with_data, fetch_log, outcome, http>>

\* calculate_exceedance_rates_by_year and calculate_trend on the same
\* samples and kind.
CalculateTrend ==
    /\ pc = "trend"
    /\ calc' = [calc EXCEPT
          !.rates = calculate_exceedance_rates_by_year(calc.samples,
                                                       calc.condition_type),
          !.trend = calculate_trend(calc.samples, calc.condition_type)]
    /\ pc' = "done"
    /\ UNCHANGED <<tasks, precip, req, settings, call, attempts, requests_sent,
                   last_resp, daily_result, year, year_samples, all_samples,
                   years_with_data, fetch_log, outcome, http>>

BuildDateRange ==
    /\ pc = "doy_range"
    /\ calc' = [calc EXCEPT !.doy_range =
          build_date_range_for_doy(calc.target_doy, calc.window_days)]
    /\ pc' = "done"
    /\ UNCHANGED <<tasks, precip, req, settings, call, attempts, requests_sent,
                   last_resp, daily_result, year, year_samples, all_samples,
                   years_with_data, fetch_log, outcome, http>>

CreateDistribution ==
    /\ pc = "distribution"
    /\ calc' = [calc EXCEPT !.distribution =
          create_distribution(calc.values, calc.threshold_value, calc.n_bins)]
    /\ pc' = "done"
    /\ UNCHANGED <<tasks, precip, req, settings, call, attempts, requests_sent,
                   last_resp, daily_result, year, year_samples, all_samples,
                   years_with_data, fetch_log, outcome, http>>

AggregateToHourly ==
    /\ pc = "aggregate"
    /\ calc' = [calc EXCEPT !.hourly =
          aggregate_to_hourly(calc.points, calc.timezone)]
    /\ pc' = "done"
    /\ UNCHANGED <<tasks, precip, req, settings, call, attempts, requests_sent,
                   last_resp, daily_result, year, year_samples, all_samples,
                   years_with_data, fetch_log, outcome, http>>

\* One iteration of a task's year loop up to the await of the year's
\* fetch, or the end of the loop.
TaskBeginYear(c) ==
    /\ pc = "tasks"
    /\ tasks[c].pc = "loop"
    /\ tasks' = [tasks EXCEPT ![c] =
          IF tasks[c].year > req.baseline_end_year
          THEN [@ EXCEPT !.pc = "done"]
          ELSE [@ EXCEPT !.pc = "await",
                         !.in_flight = @ \cup {tasks[c].year},
                         !.issued = Append(@, tasks[c].year)]]
    /\ UNCHANGED <<pc, req, settings, call, attempts, requests_sent, last_resp,
                   daily_result, year, year_samples, all_samples,
                   years_with_data, fetch_log, outcome, precip, calc, http>>

\* The awaited fetch of a task ends and the task runs to its next await:
\* the samples of the year are appended to the task's list, a PowerAPIError
\* skips the year, any other exception ends the call.
TaskFetchEnds(c) ==
    /\ pc = "tasks"
    /\ tasks[c].pc = "await"
    /\ \E y \in tasks[c].in_flight, o \in FetchOutcomes :
          LET resumed ==
                [tasks[c] EXCEPT
                   !.in_flight = @ \ {y},
                   !.ended = Append(@, [year |-> y, outcome |-> o]),
                   !.years_with_data = IF o = "samples" THEN @ + 1 ELSE @,
                   !.year = IF o \in {"samples", "empty"}
                               \/ YearExceptClause(o) = "skip"
                            THEN @ + 1 ELSE @,
                   !.exc = IF o \in {"samples", "empty"}
                              \/ YearExceptClause(o) = "skip"
                           THEN @ ELSE YearExceptClause(o),
                   !.pc = IF o \in {"samples", "empty"}
                             \/ YearExceptClause(o) = "skip"
                          THEN "loop" ELSE "done"]
          IN tasks' = [d \in TaskIds |->
                LET task == IF d = c THEN resumed ELSE tasks[d]
                IN IF d = ListOf(c) /\ o = "samples"
                   THEN [task EXCEPT !.all_samples =
                           Append(@, [origin |-> c, year |-> y])]
                   ELSE task]
    /\ UNCHANGED <<pc, req, settings, call, attempts, requests_sent, last_resp,
                   daily_result, year, year_samples, all_samples,
                   years_with_data, fetch_log, outcome, precip, calc, http>>

ClopperPearsonInterval ==
    /\ pc = "interval"
    /\ calc' = [calc EXCEPT !.interval =
          clopper_pearson_interval(calc.successes, calc.trials)]
    /\ pc' = "done"
    /\ UNCHANGED <<tasks, precip, req, settings, call, attempts, requests_sent,
                   last_resp, daily_result, year, year_samples, all_samples,
                   years_with_data, fetch_log, outcome, http>>

Next ==
    \/ \E c \in TaskIds : TaskBeginYear(c)
    \/ \E c \in TaskIds : TaskFetchEnds(c)
    \/ AggregateToHourly
    \/ BuildDateRange
    \/ CreateDistribution
    \/ CalculateProbability
    \/ CalculateTrend
    \/ ClopperPearsonInterval
    \/ ComputeIndices
    \/ FlagSample
    \/ ExportRow
    \/ StartPrecip
    \/ ImergAnswers
    \/ Synthesise
    \/ StartDaily
    \/ StartHandler
    \/ StartCollect
    \/ BeginYear
    \/ MakeRequestAttempt
    \/ CheckCoverage
    \/ AssessRisk
    \/ ExportData

Spec == Init /\ [][Next]_vars

(***************************************************************************)
(* Properties.                                                             *)
(***************************************************************************)
Collecting == req.kind \in {"collect", "risk", "export"}

\* collect_samples has ended.
CollectEnded == outcome.exc # Pending

\* The number of baseline years of the call.
YearsRequested == req.baseline_end_year - req.baseline_start_year + 1

\* The baseline year whose fetch is entry i of fetch_log.
LoggedYear(i) == req.baseline_start_year + i - 1

SamplesOfYear(samples, y) ==
    {i \in 1..Len(samples) : samples[i].year = y}

\* The upstream's answer is a failure the retry policy names: a transport
\* error or one of the statuses 429, 500, 502, 503, 504.
NamedRetryable(resp) ==
    resp.transport_error \/ resp.status_code \in {429, 500, 502, 503, 504}

\* C1: one _make_request call makes at most 3 HTTP attempts, and after an
\* attempt another one follows iff fewer than 3 were made and the attempt
\* failed with a transport error or a status in {429, 500, 502, 503, 504}.
C1_RetryOnNamedFailures ==
    attempts >= 1 =>
        /\ attempts <= 3
        /\ (pc = "request") <=> (attempts < 3 /\ NamedRetryable(last_resp))

\* C2: a baseline year whose fetch fails contributes no samples and is not
\* counted, and every later baseline year is still fetched: a call that got
\* past its argument checks ends only after all its years were fetched, with
\* the samples of the years that succeeded.
C2_FailedYearSkipped ==
    (Collecting /\ CollectEnded /\ fetch_log # <<>>) =>
        /\ Len(fetch_log) = YearsRequested
        /\ \A i \in 1..Len(fetch_log) :
             fetch_log[i] # NoExc => SamplesOfYear(all_samples, LoggedYear(i)) = {}
        /\ years_with_data <= Cardinality({i \in 1..Len(fetch_log) : fetch_log[i] = NoExc})

\* C3: when at least one year's fetch succeeded, the failure of another
\* year's fetch, whatever its kind, does not abort the collection.
C3_FetchFailureNeverAborts ==
    (Collecting /\ CollectEnded
       /\ \E i \in 1..Len(fetch_log) : fetch_log[i] = NoExc
       /\ \E j \in 1..Len(fetch_log) : fetch_log[j] # NoExc)
    => outcome.exc # "SampleCollectorError"

\* The collection is adequate: enough years with data and enough samples.
Adequate ==
    /\ years_with_data >= settings.coverage_min_years
    /\ Len(all_samples) >= settings.coverage_min_samples

\* collect_samples ran its year loop to the end.
LoopCompleted ==
    /\ Collecting /\ CollectEnded
    /\ ~RequestRejected(req) /\ ~CollectArgsRejected(req)
    /\ Len(fetch_log) = YearsRequested
    /\ outcome.exc # "SampleCollectorError"

\* C4: after the loop collect_samples fails with InsufficientCoverage iff
\* enforcement is on and the collection is inadequate; in every other case
\* it returns a collection whose coverage_adequate is the adequacy predicate.
C4_CoverageOutcome ==
    LoopCompleted =>
        IF settings.coverage_enforce = "true" /\ ~Adequate
        THEN outcome.exc = "InsufficientCoverageError"
             /\ ~outcome.collection.returned
        ELSE /\ outcome.exc = NoExc
             /\ outcome.collection.returned
             /\ outcome.collection.coverage_adequate = Adequate

\* A handler has answered.
Answered == req.kind \in {"risk", "export"} /\ pc = "done"

\* C5: with the default configuration a /risk or /export request whose
\* collection is inadequate is answered 422.
C5_InadequateAnswered422 ==
    (Answered /\ LoopCompleted /\ ~Adequate) => http.status = 422

\* C6: a failed /risk or /export request is answered with the class of its
\* cause: invalid input 4xx, failure of the upstream fetches 502, inadequate
\* coverage 422, anything else 500.
C6_ErrorClassOfCause ==
    (Answered /\ http.body = "error") =>
        IF RequestRejected(req) \/ CollectArgsRejected(req)
        THEN http.status \in {400, 422}
        ELSE IF \A i \in 1..Len(fetch_log) : fetch_log[i] # NoExc
        THEN http.status = 502
        ELSE IF LoopCompleted /\ ~Adequate
        THEN http.status = 422
        ELSE http.status = 500

FullRequested == Answered /\ req.kind = "risk" /\ req.detail = "full"

FullComputationRaised ==
    /\ outcome.collection.samples # <<>>
    /\ \A i \in 1..Len(outcome.collection.samples) :
         outcome.collection.samples[i].whole_numbers

\* The request fails before the distributions and trends are computed: the
\* collection failed, or the threshold and probability step raised.
FailsBeforeFullStep ==
    \/ outcome.exc # NoExc
    \/ outcome.collection.samples = <<>>
    \/ \E i \in 1..Len(outcome.collection.samples) :
          IndexRaises(outcome.collection.samples[i])

C8_NoSentinel ==
    /\ daily_result.exc = NoExc =>
         \A p \in Params : \A d \in DOMAIN daily_result.data[p] :
            daily_result.data[p][d] # SENTINEL
    /\ \A i \in 1..Len(all_samples) :
         /\ all_samples[i].temperature_c # SENTINEL
         /\ all_samples[i].relative_humidity # SENTINEL
         /\ all_samples[i].wind_speed_ms # SENTINEL
         /\ all_samples[i].precipitation_mm_per_day # SENTINEL

\* The latest get_daily_data call has ended in an error.
DailyFailed == pc # "request" /\ daily_result.exc \notin {Pending, NoExc}

\* C9: a failing get_daily_data call ends in the error kind of its cause:
\* arguments out of range give ValueError before any request is sent, a 429
\* gives the rate-limit error, another error status or a transport error
\* the base API error, and a response without a parameter map (whatever its
\* body) the data error.
C9_ErrorKindOfCause ==
    DailyFailed =>
        IF \/ call.latitude < -90 \/ call.latitude > 90
           \/ call.longitude < -180 \/ call.longitude > 180
           \/ call.start_date > call.end_date
        THEN daily_result.exc = "ValueError" /\ attempts = 0
        ELSE IF last_resp.transport_error
        THEN daily_result.exc = "PowerAPIError"
        ELSE IF last_resp.status_code = 429
        THEN daily_result.exc = "PowerAPIRateLimitError"
        ELSE IF last_resp.status_code >= 400
        THEN daily_result.exc = "PowerAPIError"
        ELSE daily_result.exc = "PowerAPIDataError"

\* A year's response has just been turned into samples.
YearProcessed ==
    Collecting /\ pc = "loop" /\ fetch_log # <<>>
      /\ fetch_log[Len(fetch_log)] = NoExc

Present(p, d) == d \in DOMAIN last_resp.parameter[p]

\* The days the latest response has an entry for.
ResponseDates == UNION {DOMAIN last_resp.parameter[p] : p \in Params}

SamplesOfDate(d) == {i \in 1..Len(year_samples) : year_samples[i].date = d}

\* C10: for each day of a year's response exactly one sample is built iff
\* temperature, humidity and wind are all present for that day (the series
\* the client returned has an entry for it that is not null); a day whose
\* precipitation alone is missing yields a sample with precipitation 0, and
\* a day lacking one of the other three yields none.
C10_SamplePerCompleteDay ==
    YearProcessed =>
        \A d \in ResponseDates \cup WindowDates(call) :
            IF Present("T2M", d) /\ Present("RH2M", d) /\ Present("WS10M", d)
            THEN /\ Cardinality(SamplesOfDate(d)) = 1
                 /\ \A i \in SamplesOfDate(d) :
                      year_samples[i].precipitation_mm_per_day =
                        IF Present("PRECTOTCORR", d)
                        THEN last_resp.parameter["PRECTOTCORR"][d] ELSE 0
            ELSE SamplesOfDate(d) = {}

C10_Witness ==
    /\ YearProcessed
    /\ \E d \in ResponseDates :
         /\ ~Present("PRECTOTCORR", d)
         /\ \E i \in SamplesOfDate(d) : year_samples[i].precipitation_mm_per_day = 0
    /\ \E e \in ResponseDates : Present("T2M", e) /\ Present("PRECTOTCORR", e)

\* collect_samples has returned a SampleCollection.
Returned == Collecting /\ outcome.collection.returned

\* C11: in a returned collection with baseline (a, b), a <= b and the year
\* of every sample lies in [a, b].
C11_SampleYearsInBaseline ==
    Returned =>
        /\ req.baseline_start_year <= req.baseline_end_year
        /\ \A i \in 1..Len(outcome.collection.samples) :
             /\ req.baseline_start_year <= outcome.collection.samples[i].year
             /\ outcome.collection.samples[i].year <= req.baseline_end_year

\* Sample x does not come after sample y in (year, date) order.
NotAfter(x, y) == x.year < y.year \/ (x.year = y.year /\ x.date <= y.date)

\* C12: the samples of a returned collection are ordered by year ascending
\* and, within a year, by date ascending.
C12_SamplesOrdered ==
    Returned =>
        \A i \in 1..Len(outcome.collection.samples) :
            \A j \in i..Len(outcome.collection.samples) :
                NotAfter(outcome.collection.samples[i],
                         outcome.collection.samples[j])

\* C13: timestamp_local and timestamp_utc of every sample built denote the
\* same instant, timestamp_local being expressed in the collection's zone.
C13_TimestampsSameInstant ==
    Collecting =>
        \A i \in 1..Len(all_samples) :
            /\ all_samples[i].timestamp_local.instant =
                 all_samples[i].timestamp_utc.instant
            /\ all_samples[i].timestamp_local.utcoffset =
                 UtcOffset(tz_for_point(req.latitude, req.longitude))
            /\ all_samples[i].timestamp_utc.utcoffset = 0

\* C14: the civil hour of every sample's timestamp_local is the target hour
\* and its civil date is the sample's calendar day, so that doy is the day
\* of the year of timestamp_local.
C14_LocalTimestampAtTargetHour ==
    Collecting =>
        \A i \in 1..Len(all_samples) :
            /\ CivilHour(all_samples[i].timestamp_local) = req.target_hour
            /\ CivilDate(all_samples[i].timestamp_local) = all_samples[i].date
            /\ all_samples[i].doy =
                 DateDoy(CivilDate(all_samples[i].timestamp_local))

PrecipCall == req.kind = "precip"

\* The half-hourly source has returned at least one point.
HalfHourlyAnswered == PrecipCall /\ precip.imerg.points # <<>>

\* C15: the fallback is consulted only after the half-hourly source was
\* disabled, raised, or returned no points; when that source returned a
\* point, no reanalysis request is made and the call returns exactly the
\* source's entries.
C15_FallbackOnlyAfterHalfHourly ==
    PrecipCall =>
        /\ precip.power_calls >= 1 =>
             /\ precip.enable_fallback
             /\ \/ ~precip.enable_imerg /\ precip.imerg_calls = 0
                \/ /\ precip.imerg_calls = 1
                   /\ pc # "imerg"
                   /\ precip.imerg.raised \/ precip.imerg.points = <<>>
        /\ HalfHourlyAnswered =>
             /\ precip.power_calls = 0
             /\ requests_sent = 0
             /\ precip.returned
             /\ Len(precip.result) = Len(precip.imerg.points)
             /\ \A i \in 1..Len(precip.result) :
                  /\ precip.result[i].source = "IMERG"
                  /\ precip.result[i].hour = precip.imerg.points[i].hour
                  /\ precip.result[i].total_mm = precip.imerg.points[i].total_mm

C15_Witness ==
    /\ HalfHourlyAnswered /\ precip.returned
    /\ Len(precip.result) = 2 /\ precip.power_calls = 0

\* The fallback's daily fetch succeeded.
FallbackFetched ==
    /\ PrecipCall /\ precip.returned /\ precip.power_calls >= 1
    /\ daily_result.exc = NoExc

\* C16: when the fallback's daily fetch succeeds with daily total d, the
\* call returns 24 entries, for the hours 0..23 in ascending order, each
\* with total d/24 and the fallback's source label.
C16_FallbackUniformHours ==
    FallbackFetched =>
        LET series == daily_result.data["PRECTOTCORR"]
            d == IF call.start_date \in DOMAIN series
                 THEN series[call.start_date] ELSE 0
        IN /\ Len(precip.result) = 24
           /\ \A h \in 1..Len(precip.result) :
                /\ precip.result[h].hour = h - 1
                /\ precip.result[h].total_mm = [num |-> d, den |-> 24]
                /\ precip.result[h].source = "POWER_fallback"


\* A direct evaluation of the indices and flags of one observation.
Flagging == calc.kind = "sample"

\* Both the threshold engine and the exporter have flagged the observation.
BothFlagged ==
    /\ Flagging /\ pc = "done"
    /\ calc.engine.exc = NoExc /\ calc.export.exc = NoExc

\* precipitation_mm_per_day / 24 >= thresholds_rain_mm_per_h
RainRateOverThreshold ==
    calc.sample.precipitation_mm_per_day * 10
        >= 24 * Thresholds.thresholds_rain_mm_per_h

\* C17: the threshold engine and the exporter both flag a sample very wet
\* exactly when its daily precipitation divided by 24 reaches
\* thresholds_rain_mm_per_h.
C17_WetFlagDailyOver24 ==
    BothFlagged =>
        /\ calc.engine.value[1].very_wet = RainRateOverThreshold
        /\ calc.export.value[1].very_wet = RainRateOverThreshold

\* The numeric arguments the index functions accept.
HumidityAccepted ==
    0 <= calc.sample.relative_humidity /\ calc.sample.relative_humidity <= 100

WindAccepted == calc.sample.wind_speed_ms >= 0

IndicesComputed == Flagging /\ pc \in {"flags", "export_row", "done"}

SampleFlagged == Flagging /\ pc \in {"export_row", "done"}

ProbabilityReturned ==
    /\ calc.kind = "probability" /\ pc \in {"trend", "done"}
    /\ calc.result.exc = NoExc

\* The flags of flag_weather_conditions that are set for the i-th sample.
FlagsSet(i) ==
    LET flags == flag_weather_conditions(calc.samples[i], Thresholds)
    IN {f \in {"very_hot", "very_cold", "very_windy", "very_wet"} : flags[f]}

\* The flag a kind names.
FlagOfKind ==
    [hot |-> "very_hot", cold |-> "very_cold", windy |-> "very_windy",
     wet |-> "very_wet"]

\* The samples satisfying the predicate of the call's kind.
SatisfyingSamples ==
    {i \in 1..Len(calc.samples) :
        IF calc.condition_type = "any" THEN Cardinality(FlagsSet(i)) >= 1
        ELSE IF calc.condition_type = "multiple"
        THEN Cardinality(FlagsSet(i)) >= 2
        ELSE FlagOfKind[calc.condition_type] \in FlagsSet(i)}

\* C19: calculate_probability returns total_samples = n, the number of
\* samples, positive_samples = k, the number of samples satisfying the
\* predicate of the kind (its flag; at least one flag for "any", at least
\* two for "multiple"), and probability = k / n.
C19_CountsAndEstimate ==
    ProbabilityReturned =>
        LET res == calc.result.value[1]
        IN /\ res.total_samples = Len(calc.samples)
           /\ res.positive_samples = Cardinality(SatisfyingSamples)
           /\ res.probability.num = Cardinality(SatisfyingSamples)
           /\ res.probability.den = Len(calc.samples)

\* A "multiple" call over three samples of which exactly one has two flags.
C19_Witness ==
    /\ ProbabilityReturned
    /\ calc.condition_type = "multiple"
    /\ Len(calc.samples) = 3
    /\ calc.result.value[1].positive_samples = 1
    /\ \E i \in 1..3 : Cardinality(FlagsSet(i)) = 1

\* A clopper_pearson_interval call with n >= 1 and 0 <= k <= n has ended.
IntervalComputed ==
    /\ calc.kind = "interval" /\ pc = "done"
    /\ calc.trials >= 1
    /\ 0 <= calc.successes /\ calc.successes <= calc.trials

\* C20: for n >= 1 and 0 <= k <= n the interval satisfies
\* 0 <= ci_lower <= k / n <= ci_upper <= 1.
C20_IntervalBracketsEstimate ==
    IntervalComputed =>
        /\ calc.interval.exc = NoExc
        /\ LET ci == calc.interval.value[1]
           IN /\ 0 <= ci.lower
              /\ ci.lower * calc.trials <= calc.successes * Grid
              /\ calc.successes * Grid <= ci.upper * calc.trials
              /\ ci.upper <= Grid

\* An interval for 0 < k < n with both bounds strictly inside (0, 1).
C20_Witness ==
    /\ IntervalComputed
    /\ 0 < calc.successes /\ calc.successes < calc.trials
    /\ 0 < calc.interval.value[1].lower
    /\ calc.interval.value[1].lower < calc.interval.value[1].upper
    /\ calc.interval.value[1].upper < Grid

\* A clopper_pearson_interval call with 0 <= k <= n has returned.
IntervalReturned ==
    /\ calc.kind = "interval" /\ pc = "done"
    /\ 0 <= calc.successes /\ calc.successes <= calc.trials
    /\ calc.interval.exc = NoExc

\* C21: the interval is exactly (0, 1) for trials = 0, has a lower bound of
\* exactly 0 (and a positive upper bound) for successes = 0 < trials, an
\* upper bound of exactly 1 (and a lower bound below 1) for
\* successes = trials > 0, and takes both bounds from beta quantiles only
\* for 0 < successes < trials.
C21_IntervalEdgeCases ==
    /\ calc.kind = "interval" /\ pc = "done"
         /\ 0 <= calc.successes /\ calc.successes <= calc.trials
       => calc.interval.exc = NoExc
    /\ IntervalReturned =>
         LET ci == calc.interval.value[1]
             k == calc.successes
             n == calc.trials
         IN /\ n = 0 => ci.lower = 0 /\ ci.upper = Grid
            /\ k = 0 /\ 0 < n =>
                 /\ ci.lower = 0
                 /\ ci.upper = beta_inverse_cdf(OneMinusAlphaHalf, 1, n)
                 /\ ci.upper > 0
            /\ k = n /\ 0 < n =>
                 /\ ci.upper = Grid
                 /\ ci.lower = beta_inverse_cdf(AlphaHalf, n, 1)
                 /\ ci.lower < Grid
            /\ 0 < k /\ k < n =>
                 /\ ci.lower = beta_inverse_cdf(AlphaHalf, k, n - k + 1)
                 /\ ci.upper = beta_inverse_cdf(OneMinusAlphaHalf, k + 1, n - k)

\* An interval for successes = trials > 1: upper bound 1, lower bound
\* strictly between 0 and 1.
C21_Witness ==
    /\ IntervalReturned
    /\ calc.successes = calc.trials /\ calc.trials > 1
    /\ calc.interval.value[1].upper = Grid
    /\ 0 < calc.interval.value[1].lower
    /\ calc.interval.value[1].lower < Grid

\* years_with_data of a collection holding the analysed samples: the year
\* loop counts every year that gave at least one sample.
YearsWithData == Cardinality({calc.samples[i].year : i \in 1..Len(calc.samples)})

\* coverage_adequate of that collection.
CollectionAdequate ==
    /\ YearsWithData >= settings.coverage_min_years
    /\ Len(calc.samples) >= settings.coverage_min_samples

\* C22: the coverage adequacy in the ProbabilityResult equals the
\* collection's coverage_adequate (years_with_data >= coverage_min_years and
\* total_samples >= coverage_min_samples), also when the years with data
\* are not contiguous.
C22_CoverageEchoed ==
    ProbabilityReturned =>
        calc.result.value[1].coverage_adequate = CollectionAdequate

\* calculate_trend has returned for the analysed samples.
TrendReturned == calc.kind = "probability" /\ pc = "done"

\* The distinct years of the analysed samples.
SampleYears == {calc.samples[i].year : i \in 1..Len(calc.samples)}

\* C23: calculate_trend reports points (one per distinct year, in strictly
\* increasing year order) iff the samples cover at least 2 distinct years,
\* and the slope it returns with points is the least squares slope of
\* exactly those points.
C23_TrendFromTwoYears ==
    TrendReturned =>
        LET points == calc.trend.points
            slope == calc.trend.slope
            ols == LeastSquaresSlope(
                     [i \in 1..Len(points) |-> points[i].year],
                     [i \in 1..Len(points) |-> points[i].exceedance_rate])
        IN /\ points # <<>> <=> Cardinality(SampleYears) >= 2
           /\ points # <<>> =>
                /\ {points[i].year : i \in 1..Len(points)} = SampleYears
                /\ Len(points) = Cardinality(SampleYears)
                /\ \A i \in 1..Len(points) - 1 :
                      points[i].year < points[i + 1].year
                /\ slope.num * ols.den = ols.num * slope.den

\* Both calculate_probability and calculate_exceedance_rates_by_year have
\* returned for the analysed samples and kind.
RatesAndProbabilityReturned == ProbabilityReturned /\ pc = "done"

\* The exceedance count of a year: its rate times its number of samples.
ExceedanceCount(y) ==
    LET total == Cardinality({i \in 1..Len(calc.samples) :
                                 calc.samples[i].year = y})
    IN (calc.rates[y].num * total) \div calc.rates[y].den

RECURSIVE SumOfCounts(_)
SumOfCounts(years) ==
    IF years = {} THEN 0
    ELSE LET y == CHOOSE z \in years : TRUE
         IN ExceedanceCount(y) + SumOfCounts(years \ {y})

\* C24 as stated: for every kind, "multiple" included, the per-year
\* exceedance counts sum to the positive_samples of calculate_probability.
C24_CountsSumToPositives ==
    RatesAndProbabilityReturned =>
        SumOfCounts(DOMAIN calc.rates) = calc.result.value[1].positive_samples

\* C24, amended: the per-year exceedance counts sum to positive_samples for
\* the kinds hot, cold, windy, wet and any; for "multiple", which
\* calculate_exceedance_rates_by_year does not know, every rate is 0.
C24_CountsSumToPositivesOfKnownKinds ==
    RatesAndProbabilityReturned =>
        /\ DOMAIN calc.rates = SampleYears
        /\ IF calc.condition_type = "multiple"
           THEN \A y \in DOMAIN calc.rates : calc.rates[y].num = 0
           ELSE SumOfCounts(DOMAIN calc.rates)
                   = calc.result.value[1].positive_samples

\* An "any" call over three samples of two years, one year holding both
\* positives and the other none.
C24_Witness ==
    /\ RatesAndProbabilityReturned
    /\ calc.condition_type = "any"
    /\ Cardinality(DOMAIN calc.rates) = 2
    /\ calc.result.value[1].positive_samples = 2
    /\ \E y \in DOMAIN calc.rates : calc.rates[y] = [num |-> 2, den |-> 2]

\* A build_date_range_for_doy call with a target day in 1..365 and a
\* window of at least 0 has ended.
DoyRangeBuilt ==
    /\ calc.kind = "doy_range" /\ pc = "done"
    /\ 1 <= calc.target_doy /\ calc.target_doy <= 365
    /\ calc.window_days >= 0

\* C25: for d in 1..365 and w >= 0, build_date_range_for_doy(d, w) returns
\* exactly the set {((d - 1 + o) mod 365) + 1 : -w <= o <= w}: every
\* element lies in 1..365 and there are min(2w + 1, 365) distinct elements.
C25_DoyWindowWraps ==
    DoyRangeBuilt =>
        /\ calc.doy_range.exc = NoExc
        /\ LET range == calc.doy_range.value[1]
               elements == {range[i] : i \in 1..Len(range)}
               w == calc.window_days
           IN /\ elements = {((calc.target_doy - 1 + o) % 365) + 1 :
                                o \in -w..w}
              /\ elements \subseteq 1..365
              /\ Cardinality(elements)
                   = IF 2 * w + 1 < 365 THEN 2 * w + 1 ELSE 365

\* The non-missing values of the array a distribution was created from.
NonMissing == {calc.values[i][1] : i \in {j \in 1..Len(calc.values) :
                                             ~IsNone(calc.values[j])}}

\* create_distribution has returned for an array with at least one
\* non-missing value.
DistributionCreated ==
    calc.kind = "distribution" /\ pc = "done" /\ NonMissing # {}

\* The threshold lies between the least and the greatest value.
ThresholdInRange ==
    /\ ~IsNone(calc.threshold_value)
    /\ \E v \in NonMissing : v <= calc.threshold_value[1]
    /\ \E v \in NonMissing : calc.threshold_value[1] <= v

\* The fraction e is the number t.
IsNumber(e, t) == e.num = t * e.den

C27_BinsNotEmpty ==
    DistributionCreated =>
        \A i \in 1..Len(calc.distribution.bins) :
            Less(calc.distribution.bins[i].lower_bound,
                 calc.distribution.bins[i].upper_bound)

Aggregated ==
    /\ calc.kind = "aggregate" /\ pc = "done"
    /\ ~ZoneInfoRaises(calc.timezone)

\* The points of a local hour.
PointsOfHour(h) ==
    SelectSeq(calc.points, LAMBDA p : LocalHour(p, calc.timezone) = h)

\* C28: every point goes to exactly one local hour of the target zone; for
\* each returned hour total_mm is the sum of 0.5 x rate over its points,
\* data_points their number and quality_score the mean of their quality
\* flags scaled to [0, 1] (stated here for the hours all of whose points
\* have a flag); the returned hours are distinct and ascending.
C28_HourlyAggregation ==
    Aggregated =>
        LET hourly == calc.hourly
        IN /\ {hourly[i].hour : i \in 1..Len(hourly)}
                = {LocalHour(calc.points[j], calc.timezone) :
                     j \in 1..Len(calc.points)}
           /\ \A i \in 1..Len(hourly) - 1 : hourly[i].hour < hourly[i + 1].hour
           /\ \A i \in 1..Len(hourly) :
                LET of_hour == PointsOfHour(hourly[i].hour)
                    rates == [j \in 1..Len(of_hour) |->
                                of_hour[j].precipitation_mm]
                IN /\ hourly[i].data_points = Len(of_hour)
                   /\ hourly[i].total_mm.num * 2
                        = Sum(rates) * hourly[i].total_mm.den
                   /\ (\A j \in 1..Len(of_hour) :
                          ~IsNone(of_hour[j].quality_flag))
                      => hourly[i].quality_score.num * 100 * Len(of_hour)
                          = Sum([j \in 1..Len(of_hour) |->
                                   of_hour[j].quality_flag[1]])
                            * hourly[i].quality_score.den

\* C29: within one collect_samples call at most one fetch is in flight,
\* the fetches are started in ascending baseline-year order, each only
\* after the fetch of the year before has completed or failed, and calls
\* that run concurrently never add samples to each other's collection.
C29_SequentialFetchesOwnSamples ==
    \A c \in TaskIds :
        LET task == tasks[c]
        IN /\ Cardinality(task.in_flight) <= 1
           /\ \A i \in 1..Len(task.issued) :
                 task.issued[i] = req.baseline_start_year + i - 1
           /\ Len(task.ended) = Len(task.issued) - Cardinality(task.in_flight)
           /\ \A i \in 1..Len(task.ended) : task.ended[i].year = task.issued[i]
           /\ task.in_flight # {} =>
                 task.in_flight = {task.issued[Len(task.issued)]}
           /\ \A i \in 1..Len(task.all_samples) :
                 task.all_samples[i].origin = c

\* Both calls are awaiting a fetch at the same time, each after it has
\* collected the samples of an earlier year.
C29_Witness ==
    \A c \in TaskIds :
        /\ tasks[c].in_flight # {}
        /\ tasks[c].all_samples # <<>>
        /\ Len(tasks[c].issued) >= 2

\* A valid collect_samples call has built the get_daily_data call of a
\* baseline year.
YearCallBuilt ==
    /\ Collecting /\ ~CollectArgsRejected(req)
    /\ 1 <= req.target_doy /\ req.target_doy <= 366
    /\ pc = "request" \/ fetch_log # <<>>

\* The date range of a call lies inside the year y.
RangeInsideYear(c, y) ==
    /\ YearStart(y) <= c.start_date
    /\ c.end_date < YearStart(y) + YearLen(y)

\* C30: for every valid collect_samples input (day of year 1..366,
\* window_days >= 0, any baseline year) the date range requested for a year
\* has start_date <= end_date and lies inside that year, so the call is
\* never aborted by the date-range validation of get_daily_data.
C30_RequestedRangeInsideYear ==
    YearCallBuilt =>
        /\ call.start_date <= call.end_date
        /\ \E y \in req.baseline_start_year..req.baseline_end_year :
              RangeInsideYear(call, y)
        /\ ~DailyArgsRejected(call)
        /\ ~(outcome.exc = "SampleCollectorError"
               /\ daily_result.exc = "ValueError" /\ attempts = 0)
====
